---- MODULE Spec2Model ----
(***************************************************************************)
(* Model of the factorial ANOVA engine of Lib/stats/stats.py: the source   *)
(* enumeration of anova(), its three per-source branches (M-variable,      *)
(* Drestrict_mean, Drestrict_source), the effect memo, the D-variable      *)
(* bookkeeping, the F/p computation, and findwithin().                     *)
(*                                                                         *)
(* Conventions.  Python lists are sequences; At(l,i) is l[i] (0-based).    *)
(* Bit masks are naturals: bit 0 is the subject column, bit j is column j. *)
(* findwithin() hands anova() one 0/1 flag per factor; anova() uses the    *)
(* flags as the bit mask Bwithins (bit j set iff column j is flagged).     *)
(* anova() calls Dfull_model/Drestrict_mean/Drestrict_source; the module   *)
(* defines them as d_full_model/d_restrict_mean/d_restrict_source, and the *)
(* calls are taken to reach those definitions; likewise multivar_SScalc    *)
(* in those functions is taken to reach multivar_sscalc.                   *)
(* Data-dependent real numbers (sums of squares, determinants) are inputs  *)
(* of an iteration, drawn from small sets; the statistics derived from     *)
(* them are carried by their sign, which is what the branches test.        *)
(* The one-way specification computes them instead: there SS and SSw hold  *)
(* exact rationals <<n, d>>, and the names harmonicmean/aharmonicmean that *)
(* anova() calls are taken to reach hmean.                                 *)
(***************************************************************************)
EXTENDS Integers, Sequences, FiniteSets, TLC

\* ------------------------------------------------------------------ bounds
MaxFactors == 3      \* largest number of factors k of a design
MaxLevels == 3       \* largest number of levels of a factor
MaxSpare == 1        \* subjects beyond one per between-subjects cell
MaxVal == 1          \* largest sum of squares / determinant drawn
FWRows == 4          \* findwithin: largest number of rows of a table
FWSubjects == 2      \* findwithin: number of subject identifiers
FWLabels == 2        \* findwithin: number of level labels
FWFactors == 2       \* findwithin: largest number of factor columns

\* --------------------------------------------------------- list utilities
At(l, i) == l[i + 1]

Range0(n) == [i \in 1..n |-> i - 1]

\* list.index(x): 0-based position of the first x, -1 where Python raises
Index(l, x) ==
  IF \E i \in 1..Len(l) : l[i] = x
  THEN (CHOOSE i \in 1..Len(l) : l[i] = x /\ \A j \in 1..(i - 1) : l[j] # x) - 1
  ELSE -1

RECURSIVE Product(_)
Product(l) == IF l = <<>> THEN 1 ELSE Head(l) * Product(Tail(l))

RECURSIVE Sum(_)
Sum(l) == IF l = <<>> THEN 0 ELSE Head(l) + Sum(Tail(l))

Pow2(n) == 2^n

Sign(x) == IF x > 0 THEN 1 ELSE IF x < 0 THEN -1 ELSE 0

\* ------------------------------------------------------------ bit helpers
\* a & b, bit by bit
RECURSIVE BitAndBits(_, _)
BitAndBits(a, b) ==
  IF a = 0 \/ b = 0 THEN 0
  ELSE (a % 2) * (b % 2) + 2 * BitAndBits(a \div 2, b \div 2)

\* the masks of a design of MaxFactors factors are below 2^(MaxFactors + 1),
\* Nallsources is 2^(MaxFactors + 1)
MaskMax == 2^(MaxFactors + 1)

\* a & b of every two masks, computed once
BitAndOfMasks == [a \in 0..MaskMax |-> [b \in 0..MaskMax |-> BitAndBits(a, b)]]

BitAnd(a, b) ==
  IF a \in 0..MaskMax /\ b \in 0..MaskMax THEN BitAndOfMasks[a][b]
  ELSE BitAndBits(a, b)

BitOr(a, b) == a + b - BitAnd(a, b)

\* ~a & b  (Python's ~a is negative; masked by the non-negative b)
\* b with the mask a ignored
AndNotUnmasked(a, b) == b

AndNot(a, b) == b - BitAnd(a, b)

subset(a, b) == BitAnd(a, b) = a

propersubset(a, b) == IF a = b THEN FALSE ELSE BitAnd(a, b) = a

RECURSIVE numbitson(_)
numbitson(a) == IF a > 0 THEN (a % 2) + numbitson(a \div 2) ELSE 0

RECURSIVE makebin(_)
makebin(sourcelist) ==
  IF sourcelist = <<>> THEN 0
  ELSE Pow2(Head(sourcelist)) + makebin(Tail(sourcelist))

makelist(src, ncols) ==
  SelectSeq(Range0(ncols), LAMBDA j : subset(Pow2(j), src))

\* ------------------------------------------------------------------ state
VARIABLES
  Nlevels,         \* anova: number of levels per column; column 0 = subjects
  Bwithins,        \* anova: mask of the within-subjects factor columns
  Nfactors,        \* anova: number of factor columns
  Nallsources,     \* anova: 2**(Nfactors+1)
  Nsubjects,       \* anova: number of subjects
  Bbetweens,       \* anova: mask of the between-subjects factor columns
  Wscols,          \* anova: column 0 and the within-subjects columns
  Bscols,          \* anova: column 0 and the between-subjects columns
  Nwifactors,      \* anova: number of within-subjects factors
  Nwsources,       \* anova: 2**Nwifactors - 1
  pc,              \* "loop" | "done" | "raised"
  it,              \* main loop: number of sources taken from range(3,N,2)
  source,          \* main loop variable
  evaluated,       \* main loop: the sources taken so far, in order
  Bwsources,       \* sources (minus subject bit) holding a within factor
  Bwonly_sources,  \* sources (minus subject bit) of within factors only
  dcount,          \* D-variable pointer
  D,               \* D[i]: number of columns of the i-th D-variable, 0 = empty
  alleffsources,   \* memo keys
  alleffects,      \* memo values (the effect of a source, symbolic)
  SSsources,       \* sources whose SS was saved in SSlist
  branch,          \* path of the last iteration: "M" | "mean" | "source"
  sub_effects,     \* last iteration: terms summed into sub_effects
  SS, SSw,         \* last iteration: effect and full-model error
  dfnum, dfden,    \* last iteration (mixed source: dfden is real, sign kept)
  f, prob,         \* last iteration: sign of F; "one" | "tail"
  err,             \* exception that ended the run, "none" otherwise
  outputlist,      \* result rows, one per evaluated source
  data,            \* findwithin: the table, rows <<subject, level, ...>>
  fwcol,           \* findwithin: loop variable col
  withinvec,       \* findwithin: the flags
  fwpc,            \* findwithin: "loop" | "done"
  mnsdims,         \* D-variable build: levels on the within axes of the source
  dvi,             \* D-variable build: loop variable i over indxlist
  Dcols,           \* D-variable build: the indxlist row of each column of D
  nextcoeff,       \* D-variable build: coefficient rows of the last column
  dverr,           \* D-variable build: exception raised, "none" otherwise
  dvpc,            \* D-variable build: "loop" | "done" | "raised" | "idle"
  alluniqueslist,  \* data array: the levels of each column, as first met
  cdata,           \* data array: pstat.collapse of the table over all keys
  dummyval,        \* data array: the filler of empty slots
  DA,              \* data array: value per index tuple
  dai,             \* data array: loop variable i over the rows of data
  dapc,            \* data array: "loop" | "done" | "idle"
  Marray,          \* one-way design: the mean of each between-subjects cell
  Narray,          \* one-way design: the number of subjects of each cell
  oneway,          \* one-way design: what f_oneway computes on the groups
  owpc,            \* one-way design: "cells" | "source" | "f_oneway" | "done" | "idle"
  shell,           \* shellsort: a, svec, ivec, gap, i, j and the position pc
  kw,              \* kruskalwallish: args, the locals and the position pc
  rao,             \* Rao's approximation: p, k, s squared and the position pc
  sched,           \* level schedule: the position of each source and the shared lists
  dvals            \* D-variable entries of every within-only source, and pc

designvars == <<Nlevels, Bwithins, Nfactors, Nallsources, Nsubjects, Bbetweens,
                Wscols, Bscols, Nwifactors, Nwsources>>
loopvars == <<pc, it, source, evaluated, Bwsources, Bwonly_sources, dcount, D,
              alleffsources, alleffects, SSsources, branch, sub_effects,
              SS, SSw, dfnum, dfden, f, prob, err, outputlist>>
fwvars == <<data, fwcol, withinvec, fwpc>>
dvvars == <<mnsdims, dvi, Dcols, nextcoeff, dverr, dvpc>>
davars == <<alluniqueslist, cdata, dummyval, DA, dai, dapc>>
owvars == <<Marray, Narray, oneway, owpc>>
auxvars == <<shell, kw, rao, sched, dvals>>
vars == <<Nlevels, Bwithins, Nfactors, Nallsources, Nsubjects, Bbetweens,
          Wscols, Bscols, Nwifactors, Nwsources, pc, it, source, evaluated, Bwsources,
          Bwonly_sources, dcount, D, alleffsources, alleffects, SSsources, branch,
          sub_effects, SS, SSw, dfnum, dfden, f, prob, err, outputlist,
          data, fwcol, withinvec, fwpc,
          mnsdims, dvi, Dcols, nextcoeff, dverr, dvpc,
          alluniqueslist, cdata, dummyval, DA, dai, dapc,
          Marray, Narray, oneway, owpc, shell, kw, rao, sched, dvals>>

\* --------------------------------------------------- design-derived values
Wcolumns == makelist(Bwithins, Nfactors + 1)

\* take(l, idxs) / pstat.colex([l], idxs)
Take(l, idxs) == [i \in 1..Len(idxs) |-> At(l, idxs[i])]

\* level counts of every factor column, between-subjects or not
BNsAllFactors == Tail(Nlevels)

\* level counts of the between-subjects factors, [1] when there is none
BNs == IF Tail(Bscols) # <<>> THEN Take(Nlevels, Tail(Bscols)) ELSE <<1>>

\* range(3, stop, 2)
range3(stop) == [i \in 1..((stop - 2) \div 2) |-> 2 * i + 1]

\* the sources of the main loop: range(3, Nallsources, 2)
SourcesShort(n) == range3(n - 1)

SourcesDown(n) == [i \in 1..Len(range3(n)) |-> range3(n)[Len(range3(n)) + 1 - i]]

Sources(n) == range3(n)

\* ------------------------------------------------ D-variable construction
\* the contrast table: coefflist[n-1] holds the rows for n levels
coefflist ==
  <<<<<<1>>>>,
     <<<<-1, 1>>>>,
     <<<<-1, 0, 1>>, <<1, -2, 1>>>>,
     <<<<-3, -1, 1, 3>>, <<1, -1, -1, 1>>, <<-1, 3, -3, 1>>>>,
     <<<<-2, -1, 0, 1, 2>>, <<2, -1, -2, -1, 2>>, <<-1, 2, 0, -2, 1>>,
       <<1, -4, 6, -4, 1>>>>,
     <<<<-5, -3, -1, 1, 3, 5>>, <<5, -1, -4, -4, -1, 5>>,
       <<-5, 7, 4, -4, -7, 5>>, <<1, -3, 2, 2, -3, 1>>,
       <<-1, 5, -10, 10, -5, 1>>>>,
     <<<<-3, -2, -1, 0, 1, 2, 3>>, <<5, 0, -3, -4, -3, 0, 5>>,
       <<-1, 1, 1, 0, -1, -1, 1>>, <<3, -7, 1, 6, 1, -7, 3>>,
       <<-1, 4, -5, 0, 5, -4, 1>>, <<1, -6, 15, -20, 15, -6, 1>>>>,
     <<<<-7, -5, -3, -1, 1, 3, 5, 7>>, <<7, 1, -3, -5, -5, -3, 1, 7>>,
       <<-7, 5, 7, 3, -3, -7, -5, 7>>, <<7, -13, -3, 9, 9, -3, -13, 7>>,
       <<-7, 23, -17, -15, 15, 17, -23, 7>>, <<1, -5, 9, -5, -5, 9, -5, 1>>,
       <<-1, 7, -21, 35, -35, 21, -7, 1>>>>,
     <<<<-4, -3, -2, -1, 0, 1, 2, 3, 4>>,
       <<28, 7, -8, -17, -20, -17, -8, 7, 28>>,
       <<-14, 7, 13, 9, 0, -9, -13, -7, 14>>,
       <<14, -21, -11, 9, 18, 9, -11, -21, 14>>,
       <<-4, 11, -4, -9, 0, 9, 4, -11, 4>>,
       <<4, -17, 22, 1, -20, 1, 22, -17, 4>>,
       <<-1, 6, -14, 14, 0, -14, 14, -6, 1>>,
       <<1, -8, 28, -56, 70, -56, 28, -8, 1>>>>,
     <<<<-9, -7, -5, -3, -1, 1, 3, 5, 7, 9>>,
       <<6, 2, -1, -3, -4, -4, -3, -1, 2, 6>>,
       <<-42, 14, 35, 31, 12, -12, -31, -35, -14, 42>>,
       <<18, -22, -17, 3, 18, 18, 3, -17, -22, 18>>,
       <<-6, 14, -1, -11, -6, 6, 11, 1, -14, 6>>,
       <<3, -11, 10, 6, -8, -8, 6, 10, -11, 3>>,
       <<9, -47, 86, -42, -56, 56, 42, -86, 47, -9>>,
       <<1, -7, 20, -28, 14, 14, -28, 20, -7, 1>>,
       <<-1, 9, -36, 84, -126, 126, -84, 36, -9, 1>>>> >>

coefflistLen == Len(coefflist)   \* level counts 1..10

RemoveAxis(shape, ax) ==
  [i \in 1..(Len(shape) - 1) |-> IF i <= ax THEN shape[i] ELSE shape[i + 1]]

\* shape of mns: DA collapsed over the axes of l, from the end of l
RECURSIVE CollapseShape(_, _)
CollapseShape(shape, l) ==
  IF l = <<>> THEN shape
  ELSE CollapseShape(RemoveAxis(shape, l[Len(l)]), SubSeq(l, 1, Len(l) - 1))

Lwithinnonsource(src) ==
  makelist(BitAnd(AndNot(src, Nallsources - 1), makebin(Wscols)), Nfactors + 1)

Lsourceandbtws(src) == makelist(BitOr(src, Bbetweens), Nfactors + 1)

\* columns of the source that are within-subjects, column 0 first,
\* remapped to axes of mns when some within axis was collapsed
\* the columns taken as axes of mns without the lookup in Lsourceandbtws
RemapNone(cols, nonsource, sourceandbtws) == cols

Remap(cols, nonsource, sourceandbtws) ==
  IF nonsource # <<>>
  THEN [i \in 1..Len(cols) |-> Index(sourceandbtws, cols[i])]
  ELSE cols

Lwithinsourcecol(src) ==
  Remap(makelist(BitAnd(src, makebin(Wscols)), Nfactors + 1),
        Lwithinnonsource(src), Lsourceandbtws(src))

\* the D-variable over the axes of mns: exception or number of columns
DvarColumns(mnsshape, axes) ==
  IF \E i \in 1..Len(axes) : axes[i] < 0
  THEN [err |-> "ValueError", variables |-> 0]
  ELSE IF \E i \in 1..Len(axes) : axes[i] >= Len(mnsshape)
  THEN [err |-> "IndexError", variables |-> 0]
  ELSE LET dvarshape == [i \in 1..Len(axes) |-> At(mnsshape, axes[i]) - 1]
       IN IF Product(dvarshape) = 0
          THEN [err |-> "AttributeError", variables |-> 0]
          ELSE IF \E i \in 1..Len(axes) : At(mnsshape, axes[i]) > coefflistLen
          THEN [err |-> "IndexError", variables |-> 0]
          ELSE [err |-> "none", variables |-> Product(dvarshape)]

\* the D-variable of a within-only source: exception or number of columns
BuildD(src) ==
  DvarColumns(CollapseShape(Nlevels, Lwithinnonsource(src)) \o <<>>,
              Tail(Lwithinsourcecol(src)))

\* ----------------------------------------------------------- effect memo
MemoizeDropped(memo, x) == memo

Memoize(memo, x) == Append(memo, x)

\* range(3, src, 2) filtered by subset(subsource-1, src-1)
BetweenSubsourcesShort(src) ==
  SelectSeq(range3(src - 2), LAMBDA t : subset(t - 1, src - 1))

\* range(3, src, 2) without the subset test
BetweenSubsourcesAll(src) == range3(src)

BetweenSubsources(src) ==
  SelectSeq(range3(src), LAMBDA t : subset(t - 1, src - 1))

\* range(3, src-2, 2) filtered as in d_restrict_source
MixedSubsources(src) ==
  SelectSeq(range3(src - 2),
            LAMBDA t : /\ propersubset(t - 1, src - 1)
                       /\ BitAnd(t - 1, Bwithins) = BitAnd(src - 1, Bwithins)
                       /\ (t - 1) # BitAnd(src - 1, Bwithins))

\* ga followed by alleffects[alleffsources.index(subsource)] per subsource
SubEffects(subs) ==
  <<[src |-> 1, of |-> "ga"]>> \o [i \in 1..Len(subs) |-> At(alleffects, Index(alleffsources, subs[i]))]

LookupFails(subs) == \E i \in 1..Len(subs) : Index(alleffsources, subs[i]) = -1

\* ------------------------------------------------------ F and probability
\* right tail of the F distribution: 1 at f = 0
fprob(dfn, dfd, fsign) == IF fsign = 0 THEN "one" ELSE "tail"

ProbOf(dfn, dfd, fsign) == IF fsign >= 0 THEN fprob(dfn, dfd, fsign) ELSE "one"

\* MS, MSw, f, prob and the two result rows of a univariate source
\* sign of f = MS / MSw, 0 for the division by zero the code guards
FSign(MS, MSw) == IF MSw # 0 THEN MS * MSw ELSE 0

\* f and prob once f's sign fs is known
PureProb(dfn, dfd, fs) == [err |-> "none", f |-> fs, prob |-> ProbOf(dfn, dfd, fs)]

PureF(ss, ssw, dfn, dfd) ==
  IF dfn = 0 \/ dfd = 0
  THEN [err |-> "ZeroDivisionError", f |-> 0, prob |-> "none"]
  ELSE PureProb(dfn, dfd, FSign(Sign(ss) * Sign(dfn), Sign(ssw) * Sign(dfd)))

\* sign of a*sqrt(qn/qd) + b, with qn/qd >= 0 and qd > 0, sa and sb the
\* signs of the two terms
SqrtSignOf(a, qn, qd, b, sa, sb) ==
  IF sa = 0 THEN sb
  ELSE IF sb = 0 \/ sb = sa THEN sa
  ELSE IF a * a * qn > b * b * qd THEN sa
  ELSE IF a * a * qn < b * b * qd THEN sb
  ELSE 0

SqrtSign(a, qn, qd, b) ==
  SqrtSignOf(a, qn, qd, b, IF qn = 0 THEN 0 ELSE Sign(a), Sign(b))

\* the same without the default for a zero denominator
RaoS2NoDefault(p, k) ==
  LET d_en == p * p + (k - 1) * (k - 1) - 5
      n_um == (p * (k - 1)) * (p * (k - 1)) - 4
  IN IF d_en >= 0 THEN <<n_um, d_en>> ELSE <<0 - n_um, 0 - d_en>>

\* Rao's s squared, as <<numerator, denominator>> with denominator > 0
RaoS2(p, k) ==
  LET d_en == p * p + (k - 1) * (k - 1) - 5
      n_um == (p * (k - 1)) * (p * (k - 1)) - 4
  IN IF d_en = 0 THEN <<1, 1>>
     ELSE IF d_en > 0 THEN <<n_um, d_en>> ELSE <<0 - n_um, 0 - d_en>>

\* dfden, f, prob and the two result rows of a within x between source
MixedFail(e, dfdsign) == [err |-> e, dfden |-> dfdsign, f |-> 0, prob |-> "none"]

\* f and prob once f's sign fs is known
MixedProb(dfn, dfdsign, fs) ==
  [err |-> "none", dfden |-> dfdsign, f |-> fs, prob |-> ProbOf(dfn, dfdsign, fs)]

\* the same, from s squared's numerator s2n and the sign of dfden
MixedFrom(detef, deter, dfn, s2n, dfdsign) ==
  IF s2n < 0 THEN MixedFail("ValueError", dfdsign)
  ELSE IF deter # 0 /\ (s2n = 0 \/ detef = 0 \/ dfn = 0)
  THEN MixedFail("ZeroDivisionError", dfdsign)
  ELSE IF dfn = 0 \/ dfdsign = 0
  THEN MixedFail("ZeroDivisionError", dfdsign)
  ELSE MixedProb(dfn, dfdsign,
                 IF deter # 0
                 THEN Sign(deter - detef) * Sign(deter) * dfdsign * Sign(dfn)
                 ELSE 0)

\* sign of dfden = m2 * sqrt(s2) - dfnum + 2
MixedDfden(m2, s2, dfn) == SqrtSign(m2, s2[1], s2[2], 2 - dfn)

\* the same, for k between-subjects cells
MixedOver(detef, deter, p, dfn, k) ==
  MixedFrom(detef, deter, dfn, RaoS2(p, k)[1],
            MixedDfden(2 * (Nsubjects - 1) - (p + k), RaoS2(p, k), dfn))

MixedF(detef, deter, p, dfn) == MixedOver(detef, deter, p, dfn, Product(BNs))

\* dfnum of a between-only source: product of (levels - 1) over source-1
DfnumBetween(src) ==
  LET sourceNs == Take(Nlevels, makelist(src - 1, Nfactors + 1))
  IN Product([i \in 1..Len(sourceNs) |-> sourceNs[i] - 1])

\* dfnum of a source with within factors when the first entry is kept
DfnumWithinKeepFirst(src) ==
  LET sourceNs == Take(Nlevels, makelist(src, Nfactors + 1))
  IN Product([i \in 1..Len(sourceNs) |-> sourceNs[i] - 1])

\* dfnum of a source with within factors: makelist(source), first dropped
DfnumWithin(src) ==
  LET sourceNs == Take(Nlevels, makelist(src, Nfactors + 1))
  IN Product(Tail([i \in 1..Len(sourceNs) |-> sourceNs[i] - 1]))

\* ------------------------------------------------------------ data inputs
\* determinant of a p x p cross-product matrix of residuals of rank <= rank
ErrorValues(rank, p) == IF rank < p THEN {0} ELSE 0..MaxVal

\* the D-variable build of the separate specification is not running
\* ------------------------------------- D-variable build, column by column
DVLevels == 11       \* largest level count of a single within factor

IndxRowLastAxis(p, dvarshape) ==
  [w \in 1..Len(dvarshape) |-> p % dvarshape[w]]

\* row p of indxlist: indices(dvarshape) reshaped to one row per combination
IndxRow(p, dvarshape) ==
  [w \in 1..Len(dvarshape) |->
     (p \div Product(SubSeq(dvarshape, w + 1, Len(dvarshape)))) % dvarshape[w]]

CoeffRowNext(nlevels, c) ==
  IF nlevels >= Len(coefflist) \/ c >= Len(coefflist[nlevels + 1])
  THEN <<>>
  ELSE coefflist[nlevels + 1][c + 1]

\* coefflist[nlevels-1][c]; <<>> stands for the IndexError of the lookup
CoeffRow(nlevels, c) ==
  IF nlevels - 1 >= Len(coefflist) \/ c >= Len(coefflist[nlevels])
  THEN <<>>
  ELSE coefflist[nlevels][c + 1]

DvIdle ==
  /\ mnsdims = <<>>
  /\ dvi = 0
  /\ Dcols = <<>>
  /\ nextcoeff = <<>>
  /\ dverr = "none"
  /\ dvpc = "idle"

\* the data-array fill of the separate specification is not running
DaIdle ==
  /\ alluniqueslist = <<>>
  /\ cdata = <<>>
  /\ dummyval = -1
  /\ DA = <<>>
  /\ dai = 0
  /\ dapc = "idle"

\* the one-way comparison of the separate specification is not running
OwIdle ==
  /\ Marray = <<>>
  /\ Narray = <<>>
  /\ oneway = [err |-> "none"]
  /\ owpc = "idle"

\* shellsort, kruskalwallish and Rao's approximation of the separate
\* specifications are not running
AuxIdle ==
  /\ shell = [pc |-> "idle"]
  /\ kw = [pc |-> "idle"]
  /\ rao = [pc |-> "idle"]
  /\ sched = [pc |-> "idle"]
  /\ dvals = [pc |-> "idle"]

\* -------------------------------------------------------------- main loop
Init ==
  /\ \E k \in 1..MaxFactors :
       \E lv \in [1..k -> 2..MaxLevels] :
         \E w \in 0..(Pow2(k) - 1) :
           \E spare \in 0..MaxSpare :
             LET btw == SelectSeq([j \in 1..k |-> j],
                                  LAMBDA j : BitAnd(Pow2(j), 2 * w) = 0)
                 cells == Product([i \in 1..Len(btw) |-> lv[btw[i]]])
             IN /\ Nlevels = <<cells + spare>> \o [j \in 1..k |-> lv[j]]
                /\ Bwithins = 2 * w
  /\ Nfactors = Len(Nlevels) - 1
  /\ Nallsources = Pow2(Nfactors + 1)
  /\ Nsubjects = At(Nlevels, 0)
  /\ Bbetweens = AndNot(Bwithins, (Nallsources - 1) - 1)
  /\ Wscols = <<0>> \o Wcolumns
  /\ Bscols = makelist(Bbetweens + 1, Nfactors + 1)
  /\ Nwifactors = Len(Wscols) - 1
  /\ Nwsources = Pow2(Nwifactors) - 1
  /\ pc = "loop"
  /\ it = 0
  /\ source = 1
  /\ evaluated = <<>>
  /\ Bwsources = <<>>
  /\ Bwonly_sources = <<>>
  /\ dcount = -1
  /\ D = [i \in 1..Nwsources |-> 0]
  /\ alleffsources = <<>>
  /\ alleffects = <<>>
  /\ SSsources = <<>>
  /\ branch = "none"
  /\ sub_effects = <<>>
  /\ SS = 0
  /\ SSw = 0
  /\ dfnum = 0
  /\ dfden = 0
  /\ f = 0
  /\ prob = "none"
  /\ err = "none"
  /\ outputlist = <<>>
  /\ data = <<>>
  /\ fwcol = 0
  /\ withinvec = <<>>
  /\ fwpc = "done"
  /\ DvIdle
  /\ DaIdle
  /\ OwIdle
  /\ AuxIdle

\* no D-variable is built for the source
NoBuild == [err |-> "none", variables |-> 0]

\* the D-variable of a within-only source as it is stored: exception raised
\* while it is built, or its number of columns
DBuilt(src) ==
  IF subset(src - 1, Bwithins)
  THEN IF dcount + 1 >= Nwsources
       THEN [err |-> "IndexError", variables |-> 0]
       ELSE BuildD(src)
  ELSE NoBuild

\* head of an iteration: Bwsources, and the new D-variable of a within-only
\* source with its pointer
DStep(src, b) ==
  /\ Bwsources' = IF BitAnd(src - 1, Bwithins) # 0
                  THEN Append(Bwsources, src - 1) ELSE Bwsources
  /\ IF subset(src - 1, Bwithins)
     THEN /\ dcount' = dcount + 1
          /\ Bwonly_sources' = Append(Bwonly_sources, src - 1)
          /\ D' = IF b.err = "none"
                  THEN [D EXCEPT ![dcount + 2] = b.variables]
                  ELSE D
     ELSE UNCHANGED <<dcount, Bwonly_sources, D>>

\* array(l) - 1
Decr(l) == [i \in 1..Len(l) |-> l[i] - 1]

RowsNoSeparator(src, dfn, dfd) ==
  << [effect |-> Decr(makelist(src - 1, Nfactors + 1)), kind |-> "effect",
      df |-> dfn],
     [effect |-> Decr(makelist(src - 1, Nfactors + 1)), kind |-> "/w",
      df |-> dfd] >>

\* the three rows a source adds to outputlist
Rows(src, dfn, dfd) ==
  LET thiseffect == Decr(makelist(src - 1, Nfactors + 1))
  IN << [effect |-> thiseffect, kind |-> "effect", df |-> dfn],
        [effect |-> thiseffect, kind |-> "/w", df |-> dfd],
        [effect |-> <<>>, kind |-> "\n", df |-> 0] >>

WorkDLatest(src, wonly, d) ==
  IF wonly = <<>> THEN [err |-> "ValueError", p |-> 0, di |-> -1]
  ELSE IF At(d, Len(wonly) - 1) = 0
  THEN [err |-> "AttributeError", p |-> 0, di |-> Len(wonly) - 1]
  ELSE [err |-> "none", p |-> At(d, Len(wonly) - 1), di |-> Len(wonly) - 1]

\* D[Bwonly_sources.index(sourcewithins)]: exception, or the index taken
\* and the number of columns of the D-variable there
\* D[di]: exception, or the number of columns of the D-variable at di
WorkDAt(d, di) ==
  IF di = -1 THEN [err |-> "ValueError", p |-> 0, di |-> di]
  ELSE IF di >= Len(d) THEN [err |-> "IndexError", p |-> 0, di |-> di]
  ELSE IF At(d, di) = 0 THEN [err |-> "AttributeError", p |-> 0, di |-> di]
  ELSE [err |-> "none", p |-> At(d, di), di |-> di]

WorkD(src, wonly, d) ==
  WorkDAt(d, Index(wonly, BitAnd(src - 1, Bwithins)))

\* "btw-subjects vars only?"
BetweenOnly(src) == BitAnd(src - 1, Bwithins) = 0

\* "**ONLY** within-subject variables to consider"
WithinOnlySwapped(src) == subset(Bwithins, src - 1)

WithinOnly(src) == subset(src - 1, Bwithins)

\* one iteration for a source of between-subjects factors only
EvalBetween ==
  /\ pc = "loop"
  /\ it < Len(Sources(Nallsources))
  /\ \E src \in {At(Sources(Nallsources), it)} :
       /\ BetweenOnly(src)
       /\ \E dfn \in {DfnumBetween(src)}, dfd \in {Nsubjects - Product(BNs)},
             subs \in {BetweenSubsources(src)}, b \in {DBuilt(src)} :
          \E derr \in {b.err} :
            \E found \in {derr = "none" /\ ~LookupFails(subs)} :
              /\ DStep(src, b)
              /\ it' = it + 1
              /\ source' = src
              /\ evaluated' = Append(evaluated, src)
              /\ branch' = IF derr = "none" THEN "M" ELSE branch
              /\ sub_effects' = IF found THEN SubEffects(subs) ELSE sub_effects
              /\ alleffects' = IF found
                               THEN Memoize(alleffects, [src |-> src, of |-> "M"])
                               ELSE alleffects
              /\ alleffsources' = IF found THEN Memoize(alleffsources, src)
                                  ELSE alleffsources
              /\ SSsources' = IF found THEN Append(SSsources, src)
                              ELSE SSsources
              /\ dfnum' = IF found THEN dfn ELSE dfnum
              /\ dfden' = IF found THEN dfd ELSE dfden
              /\ \E rows \in {Rows(src, dfn, dfd)} :
                   \E ss \in 0..MaxVal, ssw \in ErrorValues(dfd, 1) :
                     \E r \in {PureF(ss, ssw, dfn, dfd)} :
                       \E e \in {IF derr # "none" THEN derr
                                 ELSE IF ~found THEN "ValueError" ELSE r.err} :
                         /\ SS' = IF found THEN ss ELSE SS
                         /\ SSw' = IF found THEN ssw ELSE SSw
                         /\ f' = IF e = "none" THEN r.f ELSE f
                         /\ prob' = IF e = "none" THEN r.prob ELSE prob
                         /\ err' = e
                         /\ pc' = IF e = "none" THEN "loop" ELSE "raised"
                         /\ outputlist' = IF e = "none"
                                          THEN outputlist \o rows
                                          ELSE outputlist
  /\ UNCHANGED <<designvars, fwvars, dvvars, davars, owvars, auxvars>>

\* one iteration for a source of within-subjects factors only
EvalWithin ==
  /\ pc = "loop"
  /\ it < Len(Sources(Nallsources))
  /\ \E src \in {At(Sources(Nallsources), it)} :
       /\ ~BetweenOnly(src)
       /\ WithinOnly(src)
       /\ \E dfn \in {DfnumWithin(src)}, rank \in {Nsubjects - Product(BNs)},
             b \in {DBuilt(src)} :
          \E derr \in {b.err} :
            /\ DStep(src, b)
            /\ it' = it + 1
            /\ source' = src
            /\ evaluated' = Append(evaluated, src)
            /\ \E dfd \in {rank - dfn + 1}, w \in {WorkD(src, Bwonly_sources', D')} :
                 \E built \in {derr = "none" /\ w.err = "none"},
                    rows \in {Rows(src, dfn, dfd)} :
                   /\ branch' = IF built THEN "mean" ELSE branch
                   /\ dfnum' = IF built THEN dfn ELSE dfnum
                   /\ dfden' = IF built THEN dfd ELSE dfden
                   /\ \E detef \in ErrorValues(rank, w.p) :
                        \E deter \in {x \in ErrorValues(rank + 1, w.p) : x >= detef} :
                          \E r \in {PureF(deter - detef, detef, dfn, dfd)} :
                            \E e \in {IF derr # "none" THEN derr
                                      ELSE IF w.err # "none" THEN w.err
                                      ELSE r.err} :
                              /\ SS' = IF built THEN deter - detef ELSE SS
                              /\ SSw' = IF built THEN detef ELSE SSw
                              /\ f' = IF e = "none" THEN r.f ELSE f
                              /\ prob' = IF e = "none" THEN r.prob ELSE prob
                              /\ err' = e
                              /\ pc' = IF e = "none" THEN "loop" ELSE "raised"
                              /\ outputlist' = IF e = "none"
                                               THEN outputlist \o rows
                                               ELSE outputlist
  /\ UNCHANGED <<alleffects, alleffsources, SSsources, sub_effects>>
  /\ UNCHANGED <<designvars, fwvars, dvvars, davars, owvars, auxvars>>

\* one iteration for a source of within- and between-subjects factors
EvalMixed ==
  /\ pc = "loop"
  /\ it < Len(Sources(Nallsources))
  /\ \E src \in {At(Sources(Nallsources), it)} :
       /\ ~BetweenOnly(src)
       /\ ~WithinOnly(src)
       /\ \E dfn \in {DfnumWithin(src)}, rank \in {Nsubjects - Product(BNs)},
             subs \in {MixedSubsources(src)} :
            /\ DStep(src, NoBuild)
            /\ it' = it + 1
            /\ source' = src
            /\ evaluated' = Append(evaluated, src)
            /\ \E w \in {WorkD(src, Bwonly_sources', D')} :
                 \E found \in {w.err = "none" /\ ~LookupFails(subs)} :
                   /\ branch' = IF w.err = "none" THEN "source" ELSE branch
                   /\ sub_effects' = IF found THEN SubEffects(subs)
                                     ELSE sub_effects
                   /\ alleffects' = IF found
                                    THEN Memoize(alleffects,
                                                 [src |-> src, of |-> "DM"])
                                    ELSE alleffects
                   /\ alleffsources' = IF found THEN Memoize(alleffsources, src)
                                       ELSE alleffsources
                   /\ SSsources' = IF found THEN Append(SSsources, src)
                                   ELSE SSsources
                   /\ dfnum' = IF found THEN dfn ELSE dfnum
                   /\ \E detef \in ErrorValues(rank, w.p), deter \in 0..MaxVal :
                        \E r \in {MixedF(detef, deter, w.p, dfn)} :
                          \E e \in {IF w.err # "none" THEN w.err
                                    ELSE IF ~found THEN "ValueError"
                                    ELSE r.err} :
                            /\ SS' = IF found THEN deter - detef ELSE SS
                            /\ SSw' = IF found THEN detef ELSE SSw
                            /\ dfden' = IF found THEN r.dfden ELSE dfden
                            /\ f' = IF e = "none" THEN r.f ELSE f
                            /\ prob' = IF e = "none" THEN r.prob ELSE prob
                            /\ err' = e
                            /\ pc' = IF e = "none" THEN "loop" ELSE "raised"
                            /\ outputlist' = IF e = "none"
                                             THEN outputlist
                                                  \o Rows(src, dfn, r.dfden)
                                             ELSE outputlist
  /\ UNCHANGED <<designvars, fwvars, dvvars, davars, owvars, auxvars>>

\* after the last source: the title rows are put in front of outputlist
Finish ==
  /\ pc = "loop"
  /\ it = Len(Sources(Nallsources))
  /\ pc' = "done"
  /\ outputlist' = << [effect |-> <<>>, kind |-> "title", df |-> 0],
                      [effect |-> <<>>, kind |-> "dashes", df |-> 0] >>
                   \o outputlist
  /\ UNCHANGED <<it, source, evaluated, Bwsources, Bwonly_sources, dcount, D,
                 alleffsources, alleffects, SSsources, branch, sub_effects,
                 SS, SSw, dfnum, dfden, f, prob, err>>
  /\ UNCHANGED <<designvars, fwvars, dvvars, davars, owvars, auxvars>>

Next == EvalBetween \/ EvalWithin \/ EvalMixed \/ Finish

Spec == Init /\ [][Next]_vars

\* ------------------------------------------------------------- findwithin
\* pstat.colex(rows, c): column c of every row
colex(rows, c) == [i \in 1..Len(rows) |-> At(rows[i], c)]

\* pstat.unique(l): the distinct items of l, in order of first appearance
RECURSIVE unique(_)
unique(l) ==
  IF l = <<>> THEN <<>>
  ELSE LET u == unique(SubSeq(l, 1, Len(l) - 1))
           x == l[Len(l)]
       IN IF \E i \in 1..Len(u) : u[i] = x THEN u ELSE Append(u, x)

\* pstat.linexand(rows, c, v): the rows whose column c holds v
linexand(rows, c, v) == SelectSeq(rows, LAMBDA r : At(r, c) = v)

\* the flag findwithin computes for column col
FindwithinFlag(d, col) ==
  LET rows == linexand(d, col, At(unique(colex(d, 1)), 0))
  IN IF Len(unique(colex(rows, 0))) < Len(rows) THEN 1 ELSE 0

FWTables ==
  UNION { [1..n -> { <<sb>> \o lv \o <<0>> :
                       sb \in 1..FWSubjects, lv \in [1..nf -> 1..FWLabels] }] :
          n \in 1..FWRows, nf \in 1..FWFactors }

InitFW ==
  /\ data \in FWTables
  /\ fwcol = 1
  /\ withinvec = [i \in 1..(Len(data[1]) - 2) |-> 0]
  /\ fwpc = "loop"
  /\ Nlevels = <<1, 2>>
  /\ Bwithins = 0
  /\ Nfactors = 1
  /\ Nallsources = 4
  /\ Nsubjects = 1
  /\ Bbetweens = 2
  /\ Wscols = <<0>>
  /\ Bscols = <<0, 1>>
  /\ Nwifactors = 0
  /\ Nwsources = 0
  /\ pc = "done"
  /\ it = 0
  /\ source = 1
  /\ evaluated = <<>>
  /\ Bwsources = <<>>
  /\ Bwonly_sources = <<>>
  /\ dcount = -1
  /\ D = <<>>
  /\ alleffsources = <<>>
  /\ alleffects = <<>>
  /\ SSsources = <<>>
  /\ branch = "none"
  /\ sub_effects = <<>>
  /\ SS = 0
  /\ SSw = 0
  /\ dfnum = 0
  /\ dfden = 0
  /\ f = 0
  /\ prob = "none"
  /\ err = "none"
  /\ outputlist = <<>>
  /\ DvIdle
  /\ DaIdle
  /\ OwIdle
  /\ AuxIdle

\* one pass of the loop over the factor columns
FindwithinCol ==
  /\ fwpc = "loop"
  /\ fwcol <= Len(data[1]) - 2
  /\ withinvec' = IF FindwithinFlag(data, fwcol) = 1
                  THEN [withinvec EXCEPT ![fwcol] = 1] ELSE withinvec
  /\ fwcol' = fwcol + 1
  /\ UNCHANGED <<data, fwpc, designvars, loopvars, dvvars, davars, owvars, auxvars>>

FindwithinReturn ==
  /\ fwpc = "loop"
  /\ fwcol > Len(data[1]) - 2
  /\ fwpc' = "done"
  /\ UNCHANGED <<data, fwcol, withinvec, designvars, loopvars, dvvars, davars, owvars, auxvars>>

NextFW == FindwithinCol \/ FindwithinReturn

SpecFW == InitFW /\ [][NextFW]_vars

\* ------------------------------------------------ D-variable build alone
\* the D-variable build alone, for a pure-within source of a design: one
\* within factor of up to DVLevels levels, or any design of several factors;
\* mnsdims are the level counts of mns on the within axes of the source
\* number of between-subjects cells of a design: one subject in each
BetweenCells(k, lv, w) ==
  Product(SelectSeq([j \in 1..k |-> IF BitAnd(Pow2(j), 2 * w) = 0 THEN lv[j] ELSE 1],
                    LAMBDA x : TRUE))

InitDV ==
  /\ \/ \E n \in 1..DVLevels :
          /\ Nlevels = <<1, n>>
          /\ Bwithins = 2
          /\ source = 3
     \/ \E k \in 2..MaxFactors :
          \E lv \in [1..k -> 2..MaxLevels] :
            \E w \in 1..(Pow2(k) - 1) :
              \E i \in 1..(Pow2(k) - 1) :
                /\ subset(2 * i, 2 * w)
                /\ Nlevels = <<BetweenCells(k, lv, w)>> \o [j \in 1..k |-> lv[j]]
                /\ Bwithins = 2 * w
                /\ source = 2 * i + 1
  /\ Nfactors = Len(Nlevels) - 1
  /\ Nallsources = Pow2(Nfactors + 1)
  /\ Nsubjects = At(Nlevels, 0)
  /\ Bbetweens = AndNot(Bwithins, (Nallsources - 1) - 1)
  /\ Wscols = <<0>> \o Wcolumns
  /\ Bscols = makelist(Bbetweens + 1, Nfactors + 1)
  /\ Nwifactors = Len(Wscols) - 1
  /\ Nwsources = Pow2(Nwifactors) - 1
  /\ mnsdims = Take(CollapseShape(Nlevels, Lwithinnonsource(source)) \o <<>>,
                    Tail(Lwithinsourcecol(source))) \o <<>>
  /\ dvi = 0
  /\ Dcols = <<>>
  /\ nextcoeff = <<>>
  /\ dverr = "none"
  /\ dvpc = "loop"
  /\ pc = "done"
  /\ it = 0
  /\ evaluated = <<>>
  /\ Bwsources = <<>>
  /\ Bwonly_sources = <<>>
  /\ dcount = -1
  /\ D = <<>>
  /\ alleffsources = <<>>
  /\ alleffects = <<>>
  /\ SSsources = <<>>
  /\ branch = "none"
  /\ sub_effects = <<>>
  /\ SS = 0
  /\ SSw = 0
  /\ dfnum = 0
  /\ dfden = 0
  /\ f = 0
  /\ prob = "none"
  /\ err = "none"
  /\ outputlist = <<>>
  /\ data = <<>>
  /\ fwcol = 0
  /\ withinvec = <<>>
  /\ fwpc = "done"
  /\ DaIdle
  /\ OwIdle
  /\ AuxIdle

\* one pass of "for i in range(len(indxlist))": the coefficient row of each
\* within factor is looked up and the column is tacked onto D[dcount]
DvarColumn ==
  /\ dvpc = "loop"
  /\ \E dvarshape \in {Decr(mnsdims)} :
       /\ dvi < Product(dvarshape)
       /\ \E row \in {IndxRow(dvi, dvarshape)} :
            \E coeffs \in {[w \in 1..Len(mnsdims) |-> CoeffRow(mnsdims[w], row[w])]} :
              IF \E w \in 1..Len(mnsdims) : coeffs[w] = <<>>
              THEN /\ dverr' = "IndexError"
                   /\ dvpc' = "raised"
                   /\ UNCHANGED <<dvi, Dcols, nextcoeff>>
              ELSE /\ nextcoeff' = coeffs
                   /\ Dcols' = Append(Dcols, row)
                   /\ dvi' = dvi + 1
                   /\ UNCHANGED <<dverr, dvpc>>
  /\ UNCHANGED <<mnsdims, designvars, loopvars, fwvars, davars, owvars, auxvars>>

\* after the loop: variables = D[dcount].shape[1]
DvarVariables ==
  /\ dvpc = "loop"
  /\ dvi = Product(Decr(mnsdims))
  /\ IF Dcols = <<>>
     THEN dverr' = "AttributeError" /\ dvpc' = "raised"
     ELSE dverr' = dverr /\ dvpc' = "done"
  /\ UNCHANGED <<mnsdims, dvi, Dcols, nextcoeff, designvars, loopvars, fwvars, davars, owvars, auxvars>>

NextDV == DvarColumn \/ DvarVariables

SpecDV == InitDV /\ [][NextDV]_vars

\* ---------------------------------------------------- data array DA alone
DARows == 3          \* data array: largest number of rows of a table
DALabels == 2        \* data array: number of subject ids and of level labels

\* two distinct scores are enough to tell replicates apart
DAScores == {0, 1}

\* tables of rows <<subject, level, score>> of a one-factor design
DATables ==
  UNION { [1..n -> { <<sb, lv, x>> : sb \in 1..DALabels, lv \in 1..DALabels,
                                      x \in DAScores }] : n \in 1..DARows }

\* the rows of a table whose columns 0..ncols-1 hold key
KeyRows(rows, ncols, key) ==
  SelectSeq(rows, LAMBDA r : SubSeq(r, 1, ncols) = key)

\* pstat.collapse(rows, range(ncols), -1): per key, as first met, the mean
\* of the last column, kept as the sum and the number of the rows
collapse(rows, ncols) ==
  LET keys == unique([i \in 1..Len(rows) |-> SubSeq(rows[i], 1, ncols)] \o <<>>)
  IN [i \in 1..Len(keys) |->
        [key |-> keys[i],
         sum |-> Sum(colex(KeyRows(rows, ncols, keys[i]), ncols) \o <<>>),
         n |-> Len(KeyRows(rows, ncols, keys[i]))]]

\* the mask anova reads from the flags of findwithin
FindwithinMask(d) ==
  Sum([col \in 1..(Len(d[1]) - 2) |-> FindwithinFlag(d, col) * Pow2(col)] \o <<>>)

\* the slot of DA a row goes to: per column the position of its value in
\* alluniqueslist
SlotOf(row, uniques) == [j \in 1..Len(uniques) |-> Index(uniques[j], row[j])]

RECURSIVE NotAScore(_, _)
\* dummyval: the first of -1, -2, ... that is not a score of the table
NotAScore(v, datavals) ==
  IF \E i \in 1..Len(datavals) : datavals[i] = v
  THEN NotAScore(v - 1, datavals) ELSE v

InitDA ==
  /\ data \in DATables
  /\ alluniqueslist = [column \in 1..(Len(data[1]) - 1) |->
                         unique(colex(data, column - 1) \o <<>>)]
  /\ Nlevels = [column \in 1..Len(alluniqueslist) |-> Len(alluniqueslist[column])]
  /\ Nfactors = Len(Nlevels) - 1
  /\ Nallsources = Pow2(Nfactors + 1)
  /\ Nsubjects = Len(alluniqueslist[1])
  /\ Bwithins = FindwithinMask(data)
  /\ Bbetweens = AndNot(Bwithins, (Nallsources - 1) - 1)
  /\ Wscols = <<0>> \o Wcolumns
  /\ Bscols = makelist(Bbetweens + 1, Nfactors + 1)
  /\ Nwifactors = Len(Wscols) - 1
  /\ Nwsources = Pow2(Nwifactors) - 1
  /\ cdata = collapse(data, Nfactors + 1)
  /\ dummyval = NotAScore(-1, colex(data, Len(data[1]) - 1) \o <<>>)
  /\ DA = [idx \in {t \in [1..Len(Nlevels) -> 0..(DARows - 1)] :
                      \A j \in 1..Len(Nlevels) : t[j] < Nlevels[j]}
             |-> dummyval]
  /\ dai = 0
  /\ dapc = "loop"
  /\ DvIdle
  /\ OwIdle
  /\ pc = "done"
  /\ it = 0
  /\ source = 1
  /\ evaluated = <<>>
  /\ Bwsources = <<>>
  /\ Bwonly_sources = <<>>
  /\ dcount = -1
  /\ D = <<>>
  /\ alleffsources = <<>>
  /\ alleffects = <<>>
  /\ SSsources = <<>>
  /\ branch = "none"
  /\ sub_effects = <<>>
  /\ SS = 0
  /\ SSw = 0
  /\ dfnum = 0
  /\ dfden = 0
  /\ f = 0
  /\ prob = "none"
  /\ err = "none"
  /\ outputlist = <<>>
  /\ fwcol = 0
  /\ withinvec = <<>>
  /\ fwpc = "done"
  /\ AuxIdle

\* one pass of "for i in range(len(data))": DA[idx] = data[i][-1]
DAFill ==
  /\ dapc = "loop"
  /\ dai < Len(data)
  /\ DA' = [DA EXCEPT ![SlotOf(data[dai + 1], alluniqueslist)]
                        = data[dai + 1][Len(data[dai + 1])]]
  /\ dai' = dai + 1
  /\ UNCHANGED <<alluniqueslist, cdata, dummyval, dapc>>
  /\ UNCHANGED <<designvars, loopvars, fwvars, dvvars, owvars, auxvars>>

\* "DONE CREATING DATA ARRAY, DA"
DAFilled ==
  /\ dapc = "loop"
  /\ dai = Len(data)
  /\ dapc' = "done"
  /\ UNCHANGED <<alluniqueslist, cdata, dummyval, DA, dai>>
  /\ UNCHANGED <<designvars, loopvars, fwvars, dvvars, owvars, auxvars>>

NextDA == DAFill \/ DAFilled

SpecDA == InitDA /\ [][NextDA]_vars

\* ------------------------------------- one between-subjects factor alone
OWGroups == 2        \* one-way design: largest number of groups
OWRows == 5          \* one-way design: largest number of scores in all

\* scores that differ from their squares, and one that does not
OWScores == {0, 1, 3}

\* Exact rationals <<n, d>> in lowest terms, d > 0, stand for the floats.
RECURSIVE GCD(_, _)
GCD(a, b) == IF b = 0 THEN a ELSE GCD(b, a % b)

Abs(x) == IF x < 0 THEN -x ELSE x

Lowest(n, d, g) ==
  IF d < 0 THEN <<(-n) \div g, (-d) \div g>> ELSE <<n \div g, d \div g>>

Rat(n, d) == Lowest(n, d, GCD(Abs(n), Abs(d)))

RAdd(a, b) == Rat(a[1] * b[2] + b[1] * a[2], a[2] * b[2])

RSub(a, b) == Rat(a[1] * b[2] - b[1] * a[2], a[2] * b[2])

RMul(a, b) == Rat(a[1] * b[1], a[2] * b[2])

RDiv(a, b) == Rat(a[1] * b[2], a[2] * b[1])

RECURSIVE RSum(_)
RSum(l) == IF l = <<>> THEN <<0, 1>> ELSE RAdd(Head(l), RSum(Tail(l)))

\* group labels of n rows in k groups: 1..k in order, every group present
OWLabelings(n, k) ==
  {g \in [1..n -> 1..k] : /\ g[1] = 1
                          /\ g[n] = k
                          /\ \A i \in 1..(n - 1) : g[i + 1] - g[i] \in {0, 1}}

\* tables of at most maxrows rows <<subject, group, score>>, every subject
\* measured once
OWTables(maxrows) ==
  UNION { UNION { { [i \in 1..n |-> <<i, g[i], x[i]>>] :
                      g \in OWLabelings(n, k), x \in [1..n -> OWScores] } :
                  k \in 2..OWGroups } :
          n \in 2..maxrows }

\* the mean a collapsed row carries
RowMean(r) == Rat(r.sum, r.n)

\* the slot of a row of M in Marray: the position of its level, subjects
\* column stripped
CellOf(r) == Index(alluniqueslist[2], r.key[2])

CellRows(M, j) == SelectSeq(M, LAMBDA r : CellOf(r) = j)

\* hmean: size / add.reduce(1.0/a); anova calls it harmonicmean
harmonicmean(a) == RDiv(<<Len(a), 1>>, RSum([i \in 1..Len(a) |-> <<1, a[i]>>] \o <<>>))

\* SSw: every score of M less the mean of its cell, squared, summed
CellSSw(M, Ma) ==
  RSum([i \in 1..Len(M) |->
          RMul(RSub(RowMean(M[i]), Ma[CellOf(M[i]) + 1]),
               RSub(RowMean(M[i]), Ma[CellOf(M[i]) + 1]))] \o <<>>)

\* ga: the cell means weighted by the cell Ns
GrandAverage(Ma, Na) ==
  RSum([j \in 1..Len(Ma) |->
          RDiv(RMul(Ma[j], <<Na[j], 1>>), <<Sum(Na), 1>>)] \o <<>>)

\* effect = sourceMarray - sub_effects, sub_effects being ga alone
Effect(Ma, ga) == [j \in 1..Len(Ma) |-> RSub(Ma[j], ga)]

\* SS = sum(effect**2 * sourceNarray) for a scalar sourceNarray, no
\* non-source dimension
EffectSS(effect, sourceNarray) ==
  RSum([j \in 1..Len(effect) |->
          RMul(RMul(effect[j], effect[j]), sourceNarray)] \o <<>>)

\* the groups of a one-way table, in the order of alluniqueslist
GroupsOf(d) ==
  [j \in 1..Len(alluniqueslist[2]) |->
     colex(linexand(d, 1, alluniqueslist[2][j]), 2) \o <<>>]

RECURSIVE concatenate(_)
concatenate(args) ==
  IF args = <<>> THEN <<>> ELSE Head(args) \o concatenate(Tail(args))

\* ss(a): the sum of the squares (ss names a bound variable elsewhere)
ssq(a) == Sum([i \in 1..Len(a) |-> a[i] * a[i]] \o <<>>)

\* square_of_sums(a): the square of the sum
square_of_sums(a) == Sum(a) * Sum(a)

\* f_oneway, from the sums on: ssbn, sswn, dfbn, dfwn, then the ratios
OnewaySums(args, alldata, bign) ==
  LET sstot == RSub(<<ssq(alldata), 1>>, Rat(square_of_sums(alldata), bign))
      ssbn == RSub(RSum([j \in 1..Len(args) |->
                           Rat(square_of_sums(args[j]), Len(args[j]))] \o <<>>),
                   Rat(square_of_sums(alldata), bign))
      sswn == RSub(sstot, ssbn)
      dfbn == Len(args) - 1
      dfwn == bign - Len(args)
      fails == dfbn = 0 \/ dfwn = 0 \/ sswn[1] = 0
  IN [err |-> IF fails THEN "ZeroDivisionError" ELSE "none",
      sums |-> TRUE, ssbn |-> ssbn, sswn |-> sswn, dfbn |-> dfbn, dfwn |-> dfwn,
      f |-> IF fails THEN <<0, 1>>
            ELSE RDiv(RDiv(ssbn, <<dfbn, 1>>), RDiv(sswn, <<dfwn, 1>>))]

\* f_oneway(*args); var() of a group of one score divides by float(0)
f_oneway(args) ==
  IF \E j \in 1..Len(args) : Len(args[j]) = 1
  THEN [err |-> "ZeroDivisionError", sums |-> FALSE, ssbn |-> <<0, 1>>,
        sswn |-> <<0, 1>>, dfbn |-> 0, dfwn |-> 0, f |-> <<0, 1>>]
  ELSE OnewaySums(args, concatenate(args), Len(concatenate(args)))

InitOW ==
  /\ data \in OWTables(OWRows)
  /\ alluniqueslist = [column \in 1..(Len(data[1]) - 1) |->
                         unique(colex(data, column - 1) \o <<>>)]
  /\ Nlevels = [column \in 1..Len(alluniqueslist) |-> Len(alluniqueslist[column])]
  /\ Nfactors = Len(Nlevels) - 1
  /\ Nallsources = Pow2(Nfactors + 1)
  /\ Nsubjects = Len(alluniqueslist[1])
  /\ Bwithins = FindwithinMask(data)
  /\ Bbetweens = AndNot(Bwithins, (Nallsources - 1) - 1)
  /\ Wscols = <<0>> \o Wcolumns
  /\ Bscols = makelist(Bbetweens + 1, Nfactors + 1)
  /\ Nwifactors = Len(Wscols) - 1
  /\ Nwsources = Pow2(Nwifactors) - 1
  /\ Marray = [j \in 1..Nlevels[2] |-> <<0, 1>>]
  /\ Narray = [j \in 1..Nlevels[2] |-> 0]
  /\ oneway = [err |-> "none"]
  /\ owpc = "cells"
  /\ cdata = <<>>
  /\ dummyval = -1
  /\ DA = <<>>
  /\ dai = 0
  /\ dapc = "idle"
  /\ DvIdle
  /\ pc = "loop"
  /\ it = 0
  /\ source = 1
  /\ evaluated = <<>>
  /\ Bwsources = <<>>
  /\ Bwonly_sources = <<>>
  /\ dcount = -1
  /\ D = <<>>
  /\ alleffsources = <<>>
  /\ alleffects = <<>>
  /\ SSsources = <<>>
  /\ branch = "none"
  /\ sub_effects = <<>>
  /\ SS = <<0, 1>>
  /\ SSw = <<0, 1>>
  /\ dfnum = 0
  /\ dfden = 0
  /\ f = 0
  /\ prob = "none"
  /\ err = "none"
  /\ outputlist = <<>>
  /\ fwcol = 0
  /\ withinvec = <<>>
  /\ fwpc = "done"
  /\ AuxIdle

\* "Fill arrays by looping through all scores in the (collapsed) M", then
\* Marray = Marray / Narray
CellMeans ==
  /\ owpc = "cells"
  /\ \E M \in {collapse(data, Len(Bscols))} :
       /\ Narray' = [j \in 1..Nlevels[2] |-> Len(CellRows(M, j - 1))]
       /\ Marray' = [j \in 1..Nlevels[2] |->
                       RDiv(RSum([i \in 1..Len(CellRows(M, j - 1)) |->
                                    RowMean(CellRows(M, j - 1)[i])] \o <<>>),
                            <<Len(CellRows(M, j - 1)), 1>>)]
  /\ owpc' = "source"
  /\ UNCHANGED oneway
  /\ UNCHANGED <<designvars, loopvars, fwvars, dvvars, davars, auxvars>>

\* the iteration of the main loop for the one factor: the M-variable branch
\* with the real sums of squares
OneWaySource ==
  /\ owpc = "source"
  /\ pc = "loop"
  /\ it < Len(Sources(Nallsources))
  /\ \E src \in {At(Sources(Nallsources), it)} :
       /\ BetweenOnly(src)
       /\ src = Nallsources - 1
       /\ \E dfn \in {DfnumBetween(src)}, dfd \in {Nsubjects - Product(BNs)},
             subs \in {BetweenSubsources(src)},
             M \in {collapse(data, Len(Bscols))} :
            \E ss \in {EffectSS(Effect(Marray, GrandAverage(Marray, Narray)),
                                harmonicmean(Narray))},
               ssw \in {CellSSw(M, Marray)} :
              \E r \in {PureF(ss[1], ssw[1], dfn, dfd)} :
                /\ ~LookupFails(subs)
                /\ DStep(src, NoBuild)
                /\ it' = it + 1
                /\ source' = src
                /\ evaluated' = Append(evaluated, src)
                /\ branch' = "M"
                /\ sub_effects' = SubEffects(subs)
                /\ alleffects' = Memoize(alleffects, [src |-> src, of |-> "M"])
                /\ alleffsources' = Memoize(alleffsources, src)
                /\ SSsources' = Append(SSsources, src)
                /\ dfnum' = dfn
                /\ dfden' = dfd
                /\ SS' = ss
                /\ SSw' = ssw
                /\ f' = IF r.err = "none" THEN r.f ELSE f
                /\ prob' = IF r.err = "none" THEN r.prob ELSE prob
                /\ err' = r.err
                /\ pc' = IF r.err = "none" THEN "loop" ELSE "raised"
                /\ outputlist' = IF r.err = "none"
                                 THEN outputlist \o Rows(src, dfn, dfd)
                                 ELSE outputlist
  /\ owpc' = "f_oneway"
  /\ UNCHANGED <<Marray, Narray, oneway>>
  /\ UNCHANGED <<designvars, fwvars, dvvars, davars, auxvars>>

\* the direct computation on the groups of the same table
FOneway ==
  /\ owpc = "f_oneway"
  /\ oneway' = f_oneway(GroupsOf(data))
  /\ owpc' = "done"
  /\ UNCHANGED <<Marray, Narray>>
  /\ UNCHANGED <<designvars, loopvars, fwvars, dvvars, davars, auxvars>>

NextOW == CellMeans \/ OneWaySource \/ FOneway

SpecOW == InitOW /\ [][NextOW]_vars

\* -------------------------------------------------------------- shellsort
SSLen == 4           \* largest length of the array sorted
SSMax == 2           \* largest value in the array sorted

\* anova() and its helpers are not running
AnovaIdle ==
  /\ Nlevels = <<1, 2>>
  /\ Bwithins = 0
  /\ Nfactors = 1
  /\ Nallsources = 4
  /\ Nsubjects = 1
  /\ Bbetweens = 2
  /\ Wscols = <<0>>
  /\ Bscols = <<0, 1>>
  /\ Nwifactors = 0
  /\ Nwsources = 0
  /\ pc = "done"
  /\ it = 0
  /\ source = 1
  /\ evaluated = <<>>
  /\ Bwsources = <<>>
  /\ Bwonly_sources = <<>>
  /\ dcount = -1
  /\ D = <<>>
  /\ alleffsources = <<>>
  /\ alleffects = <<>>
  /\ SSsources = <<>>
  /\ branch = "none"
  /\ sub_effects = <<>>
  /\ SS = 0
  /\ SSw = 0
  /\ dfnum = 0
  /\ dfden = 0
  /\ f = 0
  /\ prob = "none"
  /\ err = "none"
  /\ outputlist = <<>>
  /\ data = <<>>
  /\ fwcol = 0
  /\ withinvec = <<>>
  /\ fwpc = "done"
  /\ DvIdle
  /\ DaIdle
  /\ OwIdle

\* the arrays of at most maxlen values 0..maxval
SSArrays(maxlen, maxval) == UNION {[1..n -> 0..maxval] : n \in 0..maxlen}

\* l with l[x] and l[y] exchanged and nothing done
SwapNone(l, x, y) == l

\* temp = l[x]; l[x] = l[y]; l[y] = temp
Swap(l, x, y) == [l EXCEPT ![x + 1] = At(l, y), ![y + 1] = At(l, x)]

\* n = len(a); svec = a * 1.0; ivec = range(n); gap = n / 2
ShellEnter(a) ==
  [a |-> a, svec |-> a, ivec |-> Range0(Len(a)), gap |-> Len(a) \div 2,
   i |-> 0, j |-> 0, pc |-> "gap"]

\* while gap > 0: ... ; return svec, ivec
ShellGapTest(s) ==
  IF s.gap > 0 THEN [s EXCEPT !.i = s.gap, !.pc = "i"]
  ELSE [s EXCEPT !.pc = "done"]

\* for i in range(gap, n): ... ; gap = gap / 2
ShellIStep(s) ==
  IF s.i < Len(s.a) THEN [s EXCEPT !.j = s.i - s.gap, !.pc = "j"]
  ELSE [s EXCEPT !.gap = s.gap \div 2, !.pc = "gap"]

\* for j in range(i-gap, -1, -gap): ...
ShellJStep(s) ==
  IF s.j > -1 THEN [s EXCEPT !.pc = "while"]
  ELSE [s EXCEPT !.i = s.i + 1, !.pc = "i"]

\* while j >= 0 and svec[j] > svec[j+gap]: exchange both pairs
ShellWhileStep(s) ==
  IF s.j >= 0 /\ At(s.svec, s.j) > At(s.svec, s.j + s.gap)
  THEN [s EXCEPT !.svec = Swap(s.svec, s.j, s.j + s.gap),
                 !.ivec = Swap(s.ivec, s.j, s.j + s.gap)]
  ELSE [s EXCEPT !.j = s.j - s.gap, !.pc = "j"]

ShellStep(s) ==
  IF s.pc = "gap" THEN ShellGapTest(s)
  ELSE IF s.pc = "i" THEN ShellIStep(s)
  ELSE IF s.pc = "j" THEN ShellJStep(s)
  ELSE ShellWhileStep(s)

InitSS ==
  /\ shell \in {ShellEnter(a) : a \in SSArrays(SSLen, SSMax)}
  /\ kw = [pc |-> "idle"]
  /\ rao = [pc |-> "idle"]
  /\ sched = [pc |-> "idle"]
  /\ dvals = [pc |-> "idle"]
  /\ AnovaIdle

ShellGap ==
  /\ shell.pc = "gap"
  /\ shell' = ShellGapTest(shell)
  /\ UNCHANGED <<designvars, loopvars, fwvars, dvvars, davars, owvars, kw, rao, sched, dvals>>

ShellI ==
  /\ shell.pc = "i"
  /\ shell' = ShellIStep(shell)
  /\ UNCHANGED <<designvars, loopvars, fwvars, dvvars, davars, owvars, kw, rao, sched, dvals>>

ShellJ ==
  /\ shell.pc = "j"
  /\ shell' = ShellJStep(shell)
  /\ UNCHANGED <<designvars, loopvars, fwvars, dvvars, davars, owvars, kw, rao, sched, dvals>>

ShellWhile ==
  /\ shell.pc = "while"
  /\ shell' = ShellWhileStep(shell)
  /\ UNCHANGED <<designvars, loopvars, fwvars, dvvars, davars, owvars, kw, rao, sched, dvals>>

NextSS == ShellGap \/ ShellI \/ ShellJ \/ ShellWhile

SpecSS == InitSS /\ [][NextSS]_vars

\* the interpreter runs the next statement of shellsort as long as there is one
SpecSSFair == SpecSS /\ WF_vars(NextSS)

\* shellsort(a) run to its return
RECURSIVE ShellRun(_)
ShellRun(s) == IF s.pc = "done" THEN s ELSE ShellRun(ShellStep(s))

shellsort(a) == ShellRun(ShellEnter(a))

\* --------------------------------------------------------- kruskalwallish
KWGroups == 4        \* largest number of samples passed
KWLen == 2           \* largest number of scores of a sample

KWScores == {0, 1}

\* any number 1..maxgroups of samples of at most maxlen scores
KWSamples(maxgroups, maxlen) ==
  UNION {[1..g -> UNION {[1..n -> KWScores] : n \in 0..maxlen}] :
           g \in 1..maxgroups}

\* position p (from 0) where the run of values equal to sorted[p] starts
RECURSIVE RunStart(_, _)
RunStart(sorted, p) ==
  IF p > 0 /\ At(sorted, p - 1) = At(sorted, p) THEN RunStart(sorted, p - 1)
  ELSE p

\* position where the run of values equal to sorted[p] ends
RECURSIVE RunEnd(_, _)
RunEnd(sorted, p) ==
  IF p < Len(sorted) - 1 /\ At(sorted, p + 1) = At(sorted, p)
  THEN RunEnd(sorted, p + 1)
  ELSE p

\* rankdata(a), each rank doubled: the mean of the positions lo..hi of a
\* run of equal values, plus 1, is (lo + hi) / 2 + 1
DoubledRanks(a, s) ==
  [x \in 1..Len(a) |->
     RunStart(s.svec, Index(s.ivec, x - 1))
     + RunEnd(s.svec, Index(s.ivec, x - 1)) + 2]

rankdata(a) == DoubledRanks(a, shellsort(a))

\* the sum of nties**3 - nties over the runs of ties from position p on
RECURSIVE TieSum(_, _)
TieSum(sorted, p) ==
  IF p >= Len(sorted) - 1 THEN 0
  ELSE IF At(sorted, p) = At(sorted, p + 1)
  THEN (RunEnd(sorted, p) - p + 1)^3 - (RunEnd(sorted, p) - p + 1)
       + TieSum(sorted, RunEnd(sorted, p) + 1)
  ELSE TieSum(sorted, p + 1)

\* tiecorrect(rankvals): the exception, or T as a fraction
tiecorrect(rankvals) ==
  IF Len(rankvals)^3 - Len(rankvals) = 0
  THEN [err |-> "ZeroDivisionError", T |-> <<0, 1>>]
  ELSE [err |-> "none",
        T |-> RSub(<<1, 1>>, Rat(TieSum(shellsort(rankvals).svec, 0),
                               Len(rankvals)^3 - Len(rankvals)))]

\* the doubled ranks of sample g: ranked[0:n[g]] after the earlier samples
\* were deleted from ranked
RanksOf(ranked, n, g) ==
  SubSeq(ranked, Sum(SubSeq(n, 1, g - 1)) + 1, Sum(SubSeq(n, 1, g)))

\* sum(args[i])**2 / float(n[i]) from the doubled ranks of the sample
RankSumSquared(r2, ni) == Rat(Sum(r2) * Sum(r2), 4 * ni)

KwEnter(args) ==
  [args |-> args, n |-> <<>>, ranked |-> <<>>, T |-> <<0, 1>>, h |-> <<0, 1>>,
   df |-> 0, err |-> "none", pc |-> "assert"]

\* assert len(args) == 3
KwAssertStep(k) ==
  IF Len(k.args) = 3 THEN [k EXCEPT !.pc = "rank"]
  ELSE [k EXCEPT !.err = "AssertionError", !.pc = "raised"]

\* n, all, ranked and T
KwRankStep(k, all, t) ==
  IF t.err # "none" THEN [k EXCEPT !.err = t.err, !.pc = "raised"]
  ELSE [k EXCEPT !.n = [g \in 1..Len(k.args) |-> Len(k.args[g])],
                 !.ranked = rankdata(all), !.T = t.T, !.pc = "sums"]

\* rsums, ssbn, totaln, h and df; ValueError for T == 0
KwSumsStep(k, totaln) ==
  IF \E g \in 1..Len(k.n) : k.n[g] = 0
  THEN [k EXCEPT !.err = "ZeroDivisionError", !.pc = "raised"]
  ELSE IF k.T[1] = 0 THEN [k EXCEPT !.err = "ValueError", !.pc = "raised"]
  ELSE [k EXCEPT
          !.h = RDiv(RSub(RMul(Rat(12, totaln * (totaln + 1)),
                               RSum([g \in 1..Len(k.n) |->
                                       RankSumSquared(RanksOf(k.ranked, k.n, g),
                                                      k.n[g])] \o <<>>)),
                          <<3 * (totaln + 1), 1>>),
                     k.T),
          !.df = Len(k.args) - 1,
          !.pc = "done"]

InitKW ==
  /\ kw \in {KwEnter(args) : args \in KWSamples(KWGroups, KWLen)}
  /\ shell = [pc |-> "idle"]
  /\ rao = [pc |-> "idle"]
  /\ sched = [pc |-> "idle"]
  /\ dvals = [pc |-> "idle"]
  /\ AnovaIdle

KwAssert ==
  /\ kw.pc = "assert"
  /\ kw' = KwAssertStep(kw)
  /\ UNCHANGED <<designvars, loopvars, fwvars, dvvars, davars, owvars, shell, rao, sched, dvals>>

KwRank ==
  /\ kw.pc = "rank"
  /\ \E all \in {concatenate(kw.args)} :
       kw' = KwRankStep(kw, all, tiecorrect(rankdata(all)))
  /\ UNCHANGED <<designvars, loopvars, fwvars, dvvars, davars, owvars, shell, rao, sched, dvals>>

KwSums ==
  /\ kw.pc = "sums"
  /\ kw' = KwSumsStep(kw, Sum(kw.n))
  /\ UNCHANGED <<designvars, loopvars, fwvars, dvvars, davars, owvars, shell, rao, sched, dvals>>

NextKW == KwAssert \/ KwRank \/ KwSums

SpecKW == InitKW /\ [][NextKW]_vars

\* ------------------------------------------------------ Rao's approximation
RaoP == 10           \* largest number p of D-variable columns
RaoK == 11           \* largest number k of between-subjects cells

InitRao ==
  /\ \E p \in 1..RaoP, k \in 2..RaoK :
       rao = [p |-> p, k |-> k, s2 |-> <<0, 1>>, pc |-> "s"]
  /\ shell = [pc |-> "idle"]
  /\ kw = [pc |-> "idle"]
  /\ sched = [pc |-> "idle"]
  /\ dvals = [pc |-> "idle"]
  /\ AnovaIdle

\* d_en and s of a within-between source
RaoS ==
  /\ rao.pc = "s"
  /\ rao' = [rao EXCEPT !.s2 = RaoS2(rao.p, rao.k), !.pc = "done"]
  /\ UNCHANGED <<designvars, loopvars, fwvars, dvvars, davars, owvars, shell, kw, sched, dvals>>

NextRao == RaoS

SpecRao == InitRao /\ [][NextRao]_vars

\* ------------------------------------------------- level-by-level schedule
\* The iterations of the main loop as tasks, one per source.  A task runs
\* the blocks of its iteration in order: the append to Bwsources, the new
\* D-variable of a within-only source with DM and DN, the reads of the
\* memo and of the slots, the append to the memo.  A task starts once every
\* source of fewer factor bits is done; the blocks of the tasks of one
\* level interleave, each block running undivided.
LVFactors == 2       \* largest number of factors k of a scheduled design

\* range(3, Nallsources, 2) as a set
SourceSet == {Sources(Nallsources)[i] : i \in 1..Len(Sources(Nallsources))}

\* the shared state before the first iteration; D[i] stands for the slot i
\* of D, DM and DN and holds the source that wrote it, 0 = never written;
\* dcountby is the source that wrote dcount last, 0 = none; reads and
\* counts record what each source was handed
SchedEnter ==
  [pc |-> "run",
   at |-> [s \in SourceSet |-> "head"],
   Bwsources |-> <<>>,
   Bwonly_sources |-> <<>>,
   dcount |-> -1,
   dcountby |-> 0,
   D |-> [i \in 1..Nwsources |-> 0],
   alleffsources |-> <<>>,
   alleffects |-> <<>>,
   reads |-> {},
   counts |-> {},
   err |-> "none"]

\* if ((source-1) & Bwithins) != 0: Bwsources.append(source-1)
HeadOf(st, src) ==
  [st EXCEPT !.Bwsources = IF BitAnd(src - 1, Bwithins) # 0
                           THEN Append(st.Bwsources, src - 1)
                           ELSE st.Bwsources,
             !.at = [st.at EXCEPT ![src] = "dvar"]]

\* the D-variable block of a within-only source: dcount = dcount + 1,
\* Bwonly_sources.append(source-1), then D, DM and DN at dcount
DvarOf(st, src) ==
  IF subset(src - 1, Bwithins)
  THEN IF st.dcount + 1 >= Nwsources
       THEN [st EXCEPT !.dcount = st.dcount + 1,
                       !.dcountby = src,
                       !.counts = st.counts \cup {[src |-> src, by |-> st.dcountby]},
                       !.Bwonly_sources = Append(st.Bwonly_sources, src - 1),
                       !.err = "IndexError", !.pc = "raised"]
       ELSE [st EXCEPT !.dcount = st.dcount + 1,
                       !.dcountby = src,
                       !.counts = st.counts \cup {[src |-> src, by |-> st.dcountby]},
                       !.Bwonly_sources = Append(st.Bwonly_sources, src - 1),
                       !.D = [st.D EXCEPT ![st.dcount + 2] = src],
                       !.at = [st.at EXCEPT ![src] = "reads"]]
  ELSE [st EXCEPT !.at = [st.at EXCEPT ![src] = "reads"]]

\* alleffects[alleffsources.index(subsource)] of every subsource
MemoRead(st, subs) ==
  [i \in 1..Len(subs) |->
     IF Index(st.alleffsources, subs[i]) = -1 THEN -1
     ELSE At(st.alleffects, Index(st.alleffsources, subs[i]))]

\* D[Bwonly_sources.index(sourcewithins)], with DM and DN at that index
SlotRead(st, src) ==
  IF Index(st.Bwonly_sources, BitAnd(src - 1, Bwithins)) = -1 THEN -1
  ELSE At(st.D, Index(st.Bwonly_sources, BitAnd(src - 1, Bwithins)))

\* what the iteration of src reads of the memo and of the slots
ReadBy(st, src) ==
  IF BetweenOnly(src)
  THEN [src |-> src, memo |-> MemoRead(st, BetweenSubsources(src)), slot |-> 0]
  ELSE IF WithinOnly(src)
  THEN [src |-> src, memo |-> <<>>, slot |-> SlotRead(st, src)]
  ELSE [src |-> src, memo |-> MemoRead(st, MixedSubsources(src)),
        slot |-> SlotRead(st, src)]

\* the reads of the iteration of src; a failed index() raises ValueError
ReadsOf(st, src) ==
  LET r == ReadBy(st, src)
  IN IF r.slot = -1 \/ \E i \in 1..Len(r.memo) : r.memo[i] = -1
     THEN [st EXCEPT !.err = "ValueError", !.pc = "raised"]
     ELSE [st EXCEPT !.reads = st.reads \cup {r},
                     !.at = [st.at EXCEPT ![src] = IF WithinOnly(src)
                                                   THEN "done" ELSE "memo"]]

\* alleffects.append(effect); alleffsources.append(source)
MemoOf(st, src) ==
  [st EXCEPT !.alleffects = Append(st.alleffects, src),
             !.alleffsources = Append(st.alleffsources, src),
             !.at = [st.at EXCEPT ![src] = "done"]]

\* one whole iteration, as the loop runs it
IterationOf(st, src) ==
  LET h == DvarOf(HeadOf(st, src), src)
  IN IF h.pc = "raised" THEN h
     ELSE LET r == ReadsOf(h, src)
          IN IF r.pc = "raised" \/ r.at[src] = "done" THEN r
             ELSE MemoOf(r, src)

\* the loop over range(3, Nallsources, 2) after its first n iterations
RECURSIVE Sequential(_)
Sequential(n) ==
  IF n = 0 THEN SchedEnter
  ELSE LET st == Sequential(n - 1)
       IN IF st.pc = "raised" THEN st
          ELSE IterationOf(st, Sources(Nallsources)[n])

\* every source of fewer factor bits than src is done
LevelOpen(st, src) ==
  \A t \in DOMAIN st.at :
    numbitson(t - 1) < numbitson(src - 1) => st.at[t] = "done"

InitLV ==
  /\ \E k \in 1..LVFactors :
       \E w \in 0..(Pow2(k) - 1) :
         LET btw == SelectSeq([j \in 1..k |-> j],
                              LAMBDA j : BitAnd(Pow2(j), 2 * w) = 0)
         IN /\ Nlevels = <<Pow2(Len(btw))>> \o [j \in 1..k |-> 2]
            /\ Bwithins = 2 * w
  /\ Nfactors = Len(Nlevels) - 1
  /\ Nallsources = Pow2(Nfactors + 1)
  /\ Nsubjects = At(Nlevels, 0)
  /\ Bbetweens = AndNot(Bwithins, (Nallsources - 1) - 1)
  /\ Wscols = <<0>> \o Wcolumns
  /\ Bscols = makelist(Bbetweens + 1, Nfactors + 1)
  /\ Nwifactors = Len(Wscols) - 1
  /\ Nwsources = Pow2(Nwifactors) - 1
  /\ pc = "done"
  /\ it = 0
  /\ source = 1
  /\ evaluated = <<>>
  /\ Bwsources = <<>>
  /\ Bwonly_sources = <<>>
  /\ dcount = -1
  /\ D = <<>>
  /\ alleffsources = <<>>
  /\ alleffects = <<>>
  /\ SSsources = <<>>
  /\ branch = "none"
  /\ sub_effects = <<>>
  /\ SS = 0
  /\ SSw = 0
  /\ dfnum = 0
  /\ dfden = 0
  /\ f = 0
  /\ prob = "none"
  /\ err = "none"
  /\ outputlist = <<>>
  /\ data = <<>>
  /\ fwcol = 0
  /\ withinvec = <<>>
  /\ fwpc = "done"
  /\ DvIdle
  /\ DaIdle
  /\ OwIdle
  /\ shell = [pc |-> "idle"]
  /\ kw = [pc |-> "idle"]
  /\ rao = [pc |-> "idle"]
  /\ dvals = [pc |-> "idle"]
  /\ sched = SchedEnter

\* a task of the open level starts its iteration
SchedHead ==
  /\ sched.pc = "run"
  /\ \E src \in DOMAIN sched.at :
       /\ sched.at[src] = "head"
       /\ LevelOpen(sched, src)
       /\ sched' = HeadOf(sched, src)
  /\ UNCHANGED <<designvars, loopvars, fwvars, dvvars, davars, owvars, shell, kw, rao, dvals>>

\* a task runs the D-variable block
SchedDvar ==
  /\ sched.pc = "run"
  /\ \E src \in DOMAIN sched.at :
       /\ sched.at[src] = "dvar"
       /\ sched' = DvarOf(sched, src)
  /\ UNCHANGED <<designvars, loopvars, fwvars, dvvars, davars, owvars, shell, kw, rao, dvals>>

\* a task reads the memo and the slots
SchedReads ==
  /\ sched.pc = "run"
  /\ \E src \in DOMAIN sched.at :
       /\ sched.at[src] = "reads"
       /\ sched' = ReadsOf(sched, src)
  /\ UNCHANGED <<designvars, loopvars, fwvars, dvvars, davars, owvars, shell, kw, rao, dvals>>

\* a task appends its effect to the memo
SchedMemo ==
  /\ sched.pc = "run"
  /\ \E src \in DOMAIN sched.at :
       /\ sched.at[src] = "memo"
       /\ sched' = MemoOf(sched, src)
  /\ UNCHANGED <<designvars, loopvars, fwvars, dvvars, davars, owvars, shell, kw, rao, dvals>>

\* every task is done
SchedDone ==
  /\ sched.pc = "run"
  /\ \A src \in DOMAIN sched.at : sched.at[src] = "done"
  /\ sched' = [sched EXCEPT !.pc = "done"]
  /\ UNCHANGED <<designvars, loopvars, fwvars, dvvars, davars, owvars, shell, kw, rao, dvals>>

NextLV == SchedHead \/ SchedDvar \/ SchedReads \/ SchedMemo \/ SchedDone

SpecLV == InitLV /\ [][NextLV]_vars

\* ------------------------------------------- values of the D-variables
\* The data array of a table and the D-variable of every within-only
\* source computed from it, in whole numbers: a mean over an axis is kept
\* as the sum over that axis, the divisor apart.
DDSubjects == 2      \* largest number of subjects of a table

\* level counts of the repeated factor
DDLevels == {2, 3}

\* scores that make the search for dummyval take 0, 1 or 2 steps
DDScores == {-2, -1}

\* labels of the two groups: apart from the labels of the repeated factor,
\* or the same
DDGroupLabels == {<<3, 4>>, <<1, 2>>}

\* rows <<subject, level, group, score>>: every subject is measured at every
\* level of the repeated factor, each measure entered twice, and belongs to
\* one of two groups
DDTable(ns, nl, g, x, bl) ==
  [i \in 1..(2 * ns * nl) |->
     << ((i - 1) \div (2 * nl)) + 1,
        (((i - 1) \div 2) % nl) + 1,
        bl[g[((i - 1) \div (2 * nl)) + 1]],
        x[((i - 1) \div (2 * nl)) + 1][(((i - 1) \div 2) % nl) + 1] >>]

DDTables(maxsubjects) ==
  UNION { { DDTable(ns, nl, g, x, bl) :
              nl \in DDLevels,
              g \in {h \in [1..ns -> 1..2] :
                       h[1] = 1 /\ \E sb \in 2..ns : h[sb] = 2},
              x \in [1..ns -> [1..3 -> DDScores]], bl \in DDGroupLabels } :
          ns \in 2..maxsubjects }

\* an array held entry by entry
Stored(arr) == arr @@ <<>>

\* the index tuples of an array of the given shape
RECURSIVE IndexTuples(_)
IndexTuples(shape) ==
  IF shape = <<>> THEN {<<>>}
  ELSE {<<j>> \o t : j \in 0..(shape[1] - 1), t \in IndexTuples(Tail(shape))}

\* a filled array of the given shape
Filled(shape, v) == [idx \in IndexTuples(shape) |-> v]

\* the index m of the collapsed array with j put back at axis ax
PutAxis(m, ax, j) == SubSeq(m, 1, ax) \o <<j>> \o SubSeq(m, ax + 1, Len(m))

\* add.reduce(arr, ax) of an array of the given shape
AddReduce(arr, shape, ax) ==
  Stored([m \in IndexTuples(RemoveAxis(shape, ax)) |->
            Sum([j \in 1..shape[ax + 1] |-> arr[PutAxis(m, ax, j - 1)]] \o <<>>)])

\* "for i in range(len(l)-1,-1,-1): dwsc = mean(dwsc, l[i])", the sums
RECURSIVE CollapseSums(_, _, _)
CollapseSums(arr, shape, l) ==
  IF l = <<>> THEN arr
  ELSE CollapseSums(AddReduce(arr, shape, l[Len(l)]),
                    RemoveAxis(shape, l[Len(l)]), SubSeq(l, 1, Len(l) - 1))

\* "for j in range(len(coeffmatrix.shape[1:])): scratch = add.reduce(scratch,1)"
RECURSIVE ReduceToSubjects(_, _)
ReduceToSubjects(arr, shape) ==
  IF Len(shape) <= 1 THEN arr
  ELSE ReduceToSubjects(AddReduce(arr, shape, 1), RemoveAxis(shape, 1))

\* coeffmatrix of column p: ones, times the coefficient row of each within
\* factor of the source along its axis
\* coeffmatrix as it is created: ones(mns.shape)
CoeffmatrixOnes(mnsshape, axes, p) == Filled(mnsshape, 1)

Coeffmatrix(mnsshape, axes, p) ==
  LET dvarshape == [w \in 1..Len(axes) |-> At(mnsshape, axes[w]) - 1]
      row == IndxRow(p, dvarshape)
  IN Stored([m \in IndexTuples(mnsshape) |->
               Product([w \in 1..Len(axes) |->
                          CoeffRow(At(mnsshape, axes[w]), row[w])[At(m, axes[w]) + 1]]
                       \o <<>>)])

\* the D-variable of a within-only source from the data array da: per column
\* and subject the sum of coeffmatrix * mns, and the divisor of the means
DVariable(da, src) ==
  LET nonsource == Lwithinnonsource(src)
      mnsshape == CollapseShape(Nlevels, nonsource)
      mns == CollapseSums(da, Nlevels, nonsource)
      axes == Tail(Lwithinsourcecol(src))
      built == DvarColumns(mnsshape \o <<>>, axes)
  IN IF built.err # "none" THEN [err |-> built.err, over |-> 0, columns |-> <<>>]
     ELSE [err |-> "none",
           over |-> Product([i \in 1..Len(nonsource) |-> At(Nlevels, nonsource[i])]
                            \o <<>>),
           columns |->
             [p \in 1..built.variables |->
                LET coeffmatrix == Coeffmatrix(mnsshape, axes, p - 1)
                    scratch == Stored([m \in IndexTuples(mnsshape) |->
                                         coeffmatrix[m] * mns[m]])
                IN ReduceToSubjects(scratch, mnsshape)]]

\* the sources of the main loop that build a D-variable
WithinOnlySources ==
  SelectSeq(Sources(Nallsources), LAMBDA src : subset(src - 1, Bwithins))

\* the D-variables of the run, in the order of dcount
DVariables(da) ==
  [i \in 1..Len(WithinOnlySources) |-> DVariable(da, WithinOnlySources[i])]

InitDD ==
  /\ data \in DDTables(DDSubjects)
  /\ alluniqueslist = [column \in 1..(Len(data[1]) - 1) |->
                         unique(colex(data, column - 1) \o <<>>)]
  /\ Nlevels = [column \in 1..Len(alluniqueslist) |-> Len(alluniqueslist[column])]
  /\ Nfactors = Len(Nlevels) - 1
  /\ Nallsources = Pow2(Nfactors + 1)
  /\ Nsubjects = Len(alluniqueslist[1])
  /\ Bwithins = FindwithinMask(data)
  /\ Bbetweens = AndNot(Bwithins, (Nallsources - 1) - 1)
  /\ Wscols = <<0>> \o Wcolumns
  /\ Bscols = makelist(Bbetweens + 1, Nfactors + 1)
  /\ Nwifactors = Len(Wscols) - 1
  /\ Nwsources = Pow2(Nwifactors) - 1
  /\ cdata = collapse(data, Nfactors + 1)
  /\ dummyval = -1
  /\ DA = <<>>
  /\ dai = 0
  /\ dapc = "dummyval"
  /\ DvIdle
  /\ OwIdle
  /\ pc = "done"
  /\ it = 0
  /\ source = 1
  /\ evaluated = <<>>
  /\ Bwsources = <<>>
  /\ Bwonly_sources = <<>>
  /\ dcount = -1
  /\ D = <<>>
  /\ alleffsources = <<>>
  /\ alleffects = <<>>
  /\ SSsources = <<>>
  /\ branch = "none"
  /\ sub_effects = <<>>
  /\ SS = 0
  /\ SSw = 0
  /\ dfnum = 0
  /\ dfden = 0
  /\ f = 0
  /\ prob = "none"
  /\ err = "none"
  /\ outputlist = <<>>
  /\ fwcol = 0
  /\ withinvec = <<>>
  /\ fwpc = "done"
  /\ shell = [pc |-> "idle"]
  /\ kw = [pc |-> "idle"]
  /\ rao = [pc |-> "idle"]
  /\ sched = [pc |-> "idle"]
  /\ dvals = [pc |-> "wait"]

\* datavals = pstat.colex(data,-1)
Datavals == {data[i][Len(data[i])] : i \in 1..Len(data)}

\* one pass of "while dummyval in datavals"
DummySearch ==
  /\ dapc = "dummyval"
  /\ dummyval \in Datavals
  /\ dummyval' = dummyval - 1
  /\ UNCHANGED <<alluniqueslist, cdata, DA, dai, dapc>>
  /\ UNCHANGED <<designvars, loopvars, fwvars, dvvars, owvars, auxvars>>

\* the search is over: DA = ones(Nlevels,'f')*dummyval
DummyFound ==
  /\ dapc = "dummyval"
  /\ dummyval \notin Datavals
  /\ DA' = Filled(Nlevels, dummyval)
  /\ dapc' = "loop"
  /\ UNCHANGED <<alluniqueslist, cdata, dummyval, dai>>
  /\ UNCHANGED <<designvars, loopvars, fwvars, dvvars, owvars, auxvars>>

\* the D-variables of the within-only sources, from the data array
DValues ==
  /\ dapc = "done"
  /\ dvals.pc = "wait"
  /\ dvals' = [pc |-> "done", D |-> DVariables(DA)]
  /\ UNCHANGED <<designvars, loopvars, fwvars, dvvars, davars, owvars, shell, kw, rao, sched>>

NextDD == DummySearch \/ DummyFound \/ DAFill \/ DAFilled \/ DValues

SpecDD == InitDD /\ [][NextDD]_vars

\* the while loop of the search goes on until its test fails
SpecDDFair == SpecDD /\ WF_vars(DummySearch \/ DummyFound)

\* ------------------------------------- one repeated factor of two levels
\* anova() on a table with one factor of two levels, every subject measured
\* at both: the data array, then the one source of the main loop with the
\* real sums of squares, on the branch the flag of findwithin selects.
PTSubjects == 3      \* largest number of subjects of a table

\* scores: -1 makes the search for dummyval step
PTScores == {-1, 0}

\* rows <<subject, level, score>>, every measure entered reps times
PTTable(ns, reps, x) ==
  [i \in 1..(2 * ns * reps) |->
     << ((i - 1) \div (2 * reps)) + 1,
        (((i - 1) \div reps) % 2) + 1,
        x[((i - 1) \div (2 * reps)) + 1][(((i - 1) \div reps) % 2) + 1] >>]

PTTables(maxsubjects) ==
  UNION { { PTTable(ns, reps, x) :
              reps \in 1..2, x \in [1..ns -> [1..2 -> PTScores]] } :
          ns \in 2..maxsubjects }

\* workD with the subjects last: per D-variable the entry of each subject
Tworkd(b) ==
  [p \in 1..Len(b.columns) |->
     [sb \in 1..Nsubjects |-> Rat(b.columns[p][<<sb - 1>>], b.over)]]

\* mean(a, 1) of one row
RMean(row) == RDiv(RSum(row \o <<>>), <<Len(row), 1>>)

\* subtr_cellmeans without between-subjects factors: one pass of the loop,
\* the mask all ones, takes the mean of each D-variable off every subject
subtr_cellmeans(tworkd) ==
  [p \in 1..Len(tworkd) |->
     [sb \in 1..Len(tworkd[p]) |-> RSub(tworkd[p][sb], RMean(tworkd[p]))]]

\* sserr[i,j] = add.reduce(workd[i]*workd[j])
multivar_sscalc(workd) ==
  [i \in 1..Len(workd) |->
     [j \in 1..Len(workd) |->
        RSum([sb \in 1..Len(workd[i]) |-> RMul(workd[i][sb], workd[j][sb])]
             \o <<>>)]]

d_full_model(tworkd) == multivar_sscalc(subtr_cellmeans(tworkd))

\* errors + transpose(grandDmeans)
d_restrict_mean(tworkd) ==
  multivar_sscalc([p \in 1..Len(tworkd) |->
                     [sb \in 1..Len(tworkd[p]) |->
                        RAdd(subtr_cellmeans(tworkd)[p][sb], RMean(tworkd[p]))]])

\* the matrix without its first row and its column j
Minor(m, j) ==
  [i \in 1..(Len(m) - 1) |->
     [c \in 1..(Len(m) - 1) |-> m[i + 1][IF c < j THEN c ELSE c + 1]]]

\* LA.determinant
RECURSIVE determinant(_)
determinant(m) ==
  IF Len(m) = 0 THEN <<1, 1>>
  ELSE RSum([j \in 1..Len(m) |->
               RMul(RMul(<<IF j % 2 = 1 THEN 1 ELSE -1, 1>>, m[1][j]),
                    determinant(Minor(m, j)))] \o <<>>)

\* f = MS / MSw, 0 when MSw is 0
FValue(ss, ssw, dfn, dfd) ==
  IF ssw[1] # 0
  THEN RDiv(RDiv(ss, <<dfn, 1>>), RDiv(ssw, <<dfd, 1>>))
  ELSE <<0, 1>>

InitPT ==
  /\ data \in PTTables(PTSubjects)
  /\ alluniqueslist = [column \in 1..(Len(data[1]) - 1) |->
                         unique(colex(data, column - 1) \o <<>>)]
  /\ Nlevels = [column \in 1..Len(alluniqueslist) |-> Len(alluniqueslist[column])]
  /\ Nfactors = Len(Nlevels) - 1
  /\ Nallsources = Pow2(Nfactors + 1)
  /\ Nsubjects = Len(alluniqueslist[1])
  /\ Bwithins = FindwithinMask(data)
  /\ Bbetweens = AndNot(Bwithins, (Nallsources - 1) - 1)
  /\ Wscols = <<0>> \o Wcolumns
  /\ Bscols = makelist(Bbetweens + 1, Nfactors + 1)
  /\ Nwifactors = Len(Wscols) - 1
  /\ Nwsources = Pow2(Nwifactors) - 1
  /\ Marray = [j \in 1..Nlevels[2] |-> <<0, 1>>]
  /\ Narray = [j \in 1..Nlevels[2] |-> 0]
  /\ oneway = [err |-> "none"]
  /\ owpc = IF Bwithins = 0 THEN "cells" ELSE "idle"
  /\ cdata = collapse(data, Nfactors + 1)
  /\ dummyval = -1
  /\ DA = <<>>
  /\ dai = 0
  /\ dapc = "dummyval"
  /\ DvIdle
  /\ pc = "loop"
  /\ it = 0
  /\ source = 1
  /\ evaluated = <<>>
  /\ Bwsources = <<>>
  /\ Bwonly_sources = <<>>
  /\ dcount = -1
  /\ D = [i \in 1..Nwsources |-> 0]
  /\ alleffsources = <<>>
  /\ alleffects = <<>>
  /\ SSsources = <<>>
  /\ branch = "none"
  /\ sub_effects = <<>>
  /\ SS = <<0, 1>>
  /\ SSw = <<0, 1>>
  /\ dfnum = 0
  /\ dfden = 0
  /\ f = 0
  /\ prob = "none"
  /\ err = "none"
  /\ outputlist = <<>>
  /\ fwcol = 0
  /\ withinvec = <<>>
  /\ fwpc = "done"
  /\ AuxIdle

\* the iteration of the main loop for a within-only source of a design
\* without between-subjects factors, with the real sums of squares
PairedSource ==
  /\ dapc = "done"
  /\ pc = "loop"
  /\ it < Len(Sources(Nallsources))
  /\ Bscols = <<0>>
  /\ \E src \in {At(Sources(Nallsources), it)} :
       /\ ~BetweenOnly(src)
       /\ WithinOnly(src)
       /\ \E dfn \in {DfnumWithin(src)}, b \in {DBuilt(src)},
             v \in {DVariable(DA, src)} :
            \E dfd \in {Nsubjects - Product(BNs) - dfn + 1},
               ef \in {d_full_model(Tworkd(v))},
               er \in {d_restrict_mean(Tworkd(v))} :
              \E ssw \in {determinant(ef)} :
                \E ss \in {RSub(determinant(er), ssw)} :
                  \E r \in {PureF(ss[1], ssw[1], dfn, dfd)} :
                    /\ b.err = "none"
                    /\ v.err = "none"
                    /\ DStep(src, b)
                    /\ it' = it + 1
                    /\ source' = src
                    /\ evaluated' = Append(evaluated, src)
                    /\ branch' = "mean"
                    /\ dfnum' = dfn
                    /\ dfden' = dfd
                    /\ SS' = ss
                    /\ SSw' = ssw
                    /\ f' = IF r.err = "none" THEN r.f ELSE f
                    /\ prob' = IF r.err = "none" THEN r.prob ELSE prob
                    /\ err' = r.err
                    /\ pc' = IF r.err = "none" THEN "loop" ELSE "raised"
                    /\ outputlist' = IF r.err = "none"
                                     THEN outputlist \o Rows(src, dfn, dfd)
                                     ELSE outputlist
  /\ UNCHANGED <<alleffects, alleffsources, SSsources, sub_effects>>
  /\ UNCHANGED <<designvars, fwvars, dvvars, davars, owvars, auxvars>>

NextPT ==
  \/ DummySearch \/ DummyFound \/ DAFill \/ DAFilled
  \/ CellMeans \/ OneWaySource \/ PairedSource

SpecPT == InitPT /\ [][NextPT]_vars

\* ================================================================ claims
\* factor columns of a source / within-subjects factor columns, as sets
BitsOf(m) == {j \in 1..(MaxFactors + 1) : (m \div Pow2(j)) % 2 = 1}

\* the bits above bit 0 of every mask, computed once
BitsOfMasks == [m \in 0..MaskMax |-> BitsOf(m)]

FactorsOf(src) ==
  IF src \in 0..MaskMax THEN BitsOfMasks[src] \cap 1..Nfactors
  ELSE {j \in 1..Nfactors : (src \div Pow2(j)) % 2 = 1}

WithinFactors == {j \in 1..Nfactors : (Bwithins \div Pow2(j)) % 2 = 1}

\* the valid sources of the design: odd masks with at least one factor
ValidSources == {2 * i + 1 : i \in 1..(2^Nfactors - 1)}

Count(l, x) == Cardinality({i \in 1..Len(l) : l[i] = x})

Dot(a, b) == Sum([i \in 1..Len(a) |-> a[i] * b[i]] \o <<>>)

\* the rows the build looks up for a factor of n levels: indices 0..n-2
ContrastsOf(n) == [c \in 1..(n - 1) |-> CoeffRow(n, c - 1)]

\* rows are n-1 rows of n integers, each summing to zero, pairwise orthogonal
OrthogonalContrasts(rows, n) ==
  /\ Len(rows) = n - 1
  /\ \A c \in 1..Len(rows) : Len(rows[c]) = n /\ Sum(rows[c]) = 0
  /\ \A c, d \in 1..Len(rows) : c < d => Dot(rows[c], rows[d]) = 0

\* the factor columns of a source, in increasing order
FactorList(src) == SelectSeq([j \in 1..Nfactors |-> j], LAMBDA j : j \in FactorsOf(src))

\* product of (levels - 1) over the factors of a source
LevelsLessOneOf(fl) ==
  Product([i \in 1..Len(fl) |-> At(Nlevels, fl[i]) - 1] \o <<>>)

LevelsLessOne(src) == LevelsLessOneOf(FactorList(src))

\* row holds one contrast index 0..levels-2 for each factor of the source
IsCombination(row, src) ==
  /\ Len(row) = Len(FactorList(src))
  /\ \A w \in 1..Len(row) : row[w] \in 0..(At(Nlevels, FactorList(src)[w]) - 2)

\* sw was built as a pure-within source and w is its D-variable
WithinPartBuilt(sw, w) ==
  /\ w.err = "none"
  /\ w.di \in 0..dcount
  /\ At(Bwonly_sources, w.di) = sw
  /\ w.p = LevelsLessOne(sw + 1)

\* the orders of n rows
RowOrders(n) == {o \in [1..n -> 1..n] : \A i, j \in 1..n : o[i] = o[j] => i = j}

\* the table with its rows taken in the order o
Reordered(rows, o) == [i \in 1..Len(rows) |-> rows[o[i]]]

\* product of the level counts of the between-subjects factors, 1 if none
LevelsOutside(wf) ==
  Product([i \in 1..Nfactors |-> IF i \in wf THEN 1 ELSE At(Nlevels, i)]
          \o <<>>)

BetweenLevels == LevelsOutside(WithinFactors)

\* every group of the one-way table has the same number of scores
EqualGroups == \A i, j \in 1..Len(Narray) : Narray[i] = Narray[j]

\* both computations of the one-way table got as far as their sums
BothSummed == owpc = "done" /\ oneway.sums

\* effect lists the factors of src, numbered from 0, in increasing order
NamesBits(effect, m) ==
  /\ \A k \in 1..(Len(effect) - 1) : effect[k] < effect[k + 1]
  /\ \A k \in 1..Len(effect) : effect[k] >= 0
  /\ Sum([k \in 1..Len(effect) |-> 2^(effect[k] + 1)] \o <<>>) = m

\* the one list that names the bits of each mask, computed once
NamesOfMasks ==
  [m \in 0..MaskMax |->
     CHOOSE e \in UNION {[1..n -> 0..MaxFactors] : n \in 0..(MaxFactors + 1)} :
       NamesBits(e, m - (m % 2))]

NamesFactorsOf(effect, src) ==
  IF src \in 0..MaskMax THEN effect = NamesOfMasks[src]
  ELSE NamesBits(effect, src - 1)

\* out is skip leading rows and then the three rows of each of the first n
\* sources evaluated, in order
ResultsInOrder(out, skip, n) ==
  /\ Len(out) = skip + 3 * n
  /\ \A i \in 1..n :
       /\ NamesFactorsOf(out[skip + 3 * i - 2].effect, evaluated[i])
       /\ out[skip + 3 * i - 2].kind = "effect"
       /\ out[skip + 3 * i - 1].kind = "/w"
       /\ out[skip + 3 * i].kind = "\n"

ProperPart(a, b) == a \subseteq b /\ a # b

\* t is a valid source of the design: odd, with at least one factor
IsValidSource(t) == t % 2 = 1 /\ t >= 3 /\ t <= 2^(Nfactors + 1) - 1

\* terms holds the between effect of every valid source whose factors are
\* a non-empty proper part of fs exactly once, of any other never: the
\* terms differ from each other, each is such an effect, and there are as
\* many of them as fs has non-empty proper parts
EachPartOnce(terms, fs) ==
  /\ Len(terms) = 2^Cardinality(fs) - 2
  /\ Cardinality({terms[i].src : i \in 1..Len(terms)}) = Len(terms)
  /\ \A i \in 1..Len(terms) :
       /\ terms[i].of = "M"
       /\ IsValidSource(terms[i].src)
       /\ ProperPart(FactorsOf(terms[i].src), fs)

\* a source whose factors are apart from the within factors (apart) or
\* among them (among) is of exactly one class, the code's tests btw and win
\* agree with the class, and the branch taken is the one of the class
ClassedAndTaken(btw, win, apart, among) ==
  /\ btw <=> apart
  /\ win <=> among
  /\ ~(apart /\ among)
  /\ branch = IF apart THEN "M" ELSE IF among THEN "mean" ELSE "source"

\* the classes of a source with factors fs in a design with within factors wf
ClassedByFactors(btw, win, fs, wf) ==
  ClassedAndTaken(btw, win, fs \cap wf = {}, fs \subseteq wf)

FewerAndAmong(a, b) == Cardinality(a) < Cardinality(b) /\ a \subseteq b

\* the factors fs of the last source of ev are not fewer than and among
\* the factors of any source before it
NoneFewerAndAmong(fs, ev) ==
  \A j \in 1..(Len(ev) - 1) : ~FewerAndAmong(fs, FactorsOf(ev[j]))

\* every valid source whose factors are a non-empty proper part of fs, the
\* factors of the last source of ev, stands in ev before it
PartsStandBefore(fs, ev) ==
  \A t \in ValidSources :
    ProperPart(FactorsOf(t), fs) => \E j \in 1..(Len(ev) - 1) : ev[j] = t

\* C1: whenever a source is evaluated, every valid source whose factor set
\* is a non-empty proper subset of its factor set was evaluated before it.
\* Stated of the source just evaluated: each earlier source was the one
\* just evaluated in an earlier state.
C1_SubsetsEvaluatedFirst ==
  it > 0 =>
    PartsStandBefore(FactorsOf(evaluated[Len(evaluated)]), evaluated)

\* C1 witness: the three-factor interaction has been evaluated
C1_Witness ==
  /\ Nfactors = 3
  /\ source = 15
  /\ Len(evaluated) = 7

\* C2: for a between-only source, sub_effects is the grand mean plus the
\* memoized effect of every valid proper sub-source, each exactly once, and
\* no memo lookup fails.
C2_BetweenSubEffects ==
  (it > 0 /\ FactorsOf(source) \cap WithinFactors = {})
  => /\ err # "ValueError"
     /\ sub_effects # <<>>
     /\ Head(sub_effects) = [src |-> 1, of |-> "ga"]
     /\ EachPartOnce(Tail(sub_effects), FactorsOf(source))

\* C2 witness: a three-way between-only interaction with its six sub-effects
C2_Witness ==
  /\ it > 0
  /\ source = 15
  /\ WithinFactors = {}
  /\ Len(sub_effects) = 7

\* C8: the loop evaluates 3, 5, ..., 2^(k+1)-1, each once, in increasing
\* order: 2^k - 1 sources in a completed run, a prefix of them before.
C8_OddSourcesInOrder ==
  /\ \A i \in 1..Len(evaluated) : evaluated[i] = 2 * i + 1
  /\ Len(evaluated) <= 2^Nfactors - 1
  /\ pc = "done" => /\ Len(evaluated) = 2^Nfactors - 1
                    /\ evaluated[Len(evaluated)] = 2^(Nfactors + 1) - 1

\* C8 witness: a completed run over three factors
C8_Witness ==
  /\ pc = "done"
  /\ Nfactors = 3
  /\ evaluated = <<3, 5, 7, 9, 11, 13, 15>>

\* C9 (as claimed): of any two evaluated sources, the one with fewer factor
\* bits was evaluated first.
C9_FewerBitsFirst ==
  \A i, j \in 1..Len(evaluated) :
    Cardinality(FactorsOf(evaluated[i])) < Cardinality(FactorsOf(evaluated[j]))
    => i < j

\* C9 (amended): of any two evaluated sources, the one with fewer factor
\* bits was evaluated first whenever its factors are among the other's.
\* Stated of the source just evaluated against every earlier one.
C9_FewerBitsFirstWithinSubsets ==
  it > 0 =>
    NoneFewerAndAmong(FactorsOf(evaluated[Len(evaluated)]), evaluated)

\* C9 witness: a two-factor source evaluated, after its one-factor parts
\* and before a one-factor source outside it
C9_Witness ==
  /\ Len(evaluated) >= 4
  /\ evaluated[3] = 7
  /\ evaluated[4] = 9

\* C10: every source is exactly one of between-only, within-only or mixed,
\* and the branch taken for it is the one of its class.
C10_BranchMatchesClass ==
  it > 0 => ClassedByFactors(BetweenOnly(source), WithinOnly(source),
                             FactorsOf(source), WithinFactors)

\* C10 witness: a mixed source taken down the Drestrict_source path in a
\* design whose earlier sources took the other two paths
C10_Witness ==
  /\ branch = "source"
  /\ source = 7
  /\ WithinFactors = {2}
  /\ err = "none"

\* C3: for a mixed source, the effects subtracted are those of every
\* smaller source that is a proper subset of it, has its within factors and
\* holds a between factor: none skipped, none twice, no lookup failing.
C3_MixedSubEffects ==
  (/\ it > 0
   /\ FactorsOf(source) \cap WithinFactors # {}
   /\ ~(FactorsOf(source) \subseteq WithinFactors))
  => /\ err # "ValueError"
     /\ sub_effects # <<>>
     /\ \A t \in ValidSources :
          Count(Tail(sub_effects), [src |-> t, of |-> "DM"])
            = IF /\ FactorsOf(t) \subseteq FactorsOf(source)
                 /\ FactorsOf(t) # FactorsOf(source)
                 /\ FactorsOf(t) \cap WithinFactors
                      = FactorsOf(source) \cap WithinFactors
                 /\ FactorsOf(t) \ WithinFactors # {}
              THEN 1 ELSE 0

\* C4 (as claimed): after the run the memo holds exactly one entry for
\* every enumerated source, between-only, within-only or mixed.
C4_MemoHoldsEverySource ==
  pc = "done" =>
    \A t \in ValidSources :
      Count(alleffsources, t) = 1 /\ Count(evaluated, t) = 1

\* C4 (amended): after the run the memo holds exactly one entry, keyed by
\* the source, for every enumerated between-only or mixed source, and none
\* for a within-only source.
C4_MemoHoldsBetweenAndMixed ==
  pc = "done" =>
    /\ Len(alleffects) = Len(alleffsources)
    /\ \A i \in 1..Len(alleffsources) : alleffects[i].src = alleffsources[i]
    /\ \A t \in ValidSources :
         /\ Count(evaluated, t) = 1
         /\ Count(alleffsources, t)
              = IF FactorsOf(t) \subseteq WithinFactors THEN 0 ELSE 1

\* C4 witness: a completed run of a design with the three kinds of source
C4_Witness ==
  /\ pc = "done"
  /\ Nfactors = 2
  /\ WithinFactors = {2}
  /\ alleffsources = <<3, 7>>

\* C5: for a between-only or within-only source whose full-model error is
\* zero, F is 0, p is 1 and no exception is raised.
C5_ZeroErrorGivesZeroF ==
  (/\ it > 0
   /\ \/ FactorsOf(source) \cap WithinFactors = {}
      \/ FactorsOf(source) \subseteq WithinFactors
   /\ SSw = 0)
  => /\ err = "none"
     /\ f = 0
     /\ prob = "one"

\* C6: for a mixed source with det(EF) = 0 or det(ER) = 0, F is 0, p is 1
\* and no exception is raised.
C6_ZeroDeterminantGivesZeroF ==
  (/\ it > 0
   /\ branch = "source"
   /\ FactorsOf(source) \cap WithinFactors # {}
   /\ ~(FactorsOf(source) \subseteq WithinFactors)
   /\ (SSw = 0 \/ SS + SSw = 0))
  => /\ err = "none"
     /\ f = 0
     /\ prob = "one"

\* C7: findwithin flags a factor iff some subject is observed at more than
\* one of its levels; a factor whose levels split the subjects into
\* disjoint groups is flagged between, whatever the other factors are.
C7_FlagIffLevelsRepeatOnSubject ==
  fwpc = "done" =>
    \A col \in 1..Len(withinvec) :
      withinvec[col] = 1
      <=> \E i, j \in 1..Len(data) :
            /\ At(data[i], 0) = At(data[j], 0)
            /\ At(data[i], col) # At(data[j], col)

\* C11: results accumulate in source-enumeration order and are never
\* changed afterwards: at every moment outputlist is, after the two title
\* rows the final step puts in front, exactly the three rows (effect, '/w',
\* separator) of each source whose iteration returned, in the order the
\* sources were evaluated; an iteration that raises adds nothing.
C11_OutputAppendOnly ==
  /\ pc = "done" => outputlist[1].kind = "title"
  /\ ResultsInOrder(outputlist, IF pc = "done" THEN 2 ELSE 0,
                    IF pc = "raised" THEN Len(evaluated) - 1 ELSE Len(evaluated))

\* C11 witness: a completed run over two factors: titles and nine rows
C11_Witness ==
  /\ pc = "done"
  /\ Nfactors = 2
  /\ Len(outputlist) = 11
  /\ outputlist[9].effect = <<0, 1>>

\* C12: the D-variable build for within factors of 2 to 10 levels never
\* fails a lookup coefflist[n-1][c] and builds its columns; with a factor
\* of more than 10 levels it raises the 'up to 10 levels' IndexError before
\* any column is built.
C12_TenLevelsBuildElevenRaise ==
  dvpc # "idle" =>
    /\ (\A w \in 1..Len(mnsdims) : mnsdims[w] \in 2..10)
       => /\ dverr = "none"
          /\ dvpc \in {"loop", "done"}
          /\ Len(Dcols) = dvi
          /\ dvpc = "done" => dvi = Product(Decr(mnsdims))
    /\ (/\ \E w \in 1..Len(mnsdims) : mnsdims[w] >= 11
        /\ \A w \in 1..Len(mnsdims) : mnsdims[w] >= 2)
       => /\ Dcols = <<>>
          /\ dvpc \in {"loop", "raised"}
          /\ dvpc = "raised" => dverr = "IndexError"

\* C12 witness: the nine columns of a ten-level factor have been built
C12_Witness ==
  /\ mnsdims = <<10>>
  /\ dvpc = "done"
  /\ Len(Dcols) = 9

\* C13: for every level count n from 2 to 10 the contrast table holds
\* exactly n-1 rows of exactly n integers, every row sums to zero and two
\* distinct rows have dot product zero; stated of the level counts of the
\* factors being built and of the rows the build looks up for them.
C13_OrthogonalContrasts ==
  dvpc # "idle" =>
    \A w \in 1..Len(mnsdims) :
      mnsdims[w] \in 2..10
      => /\ Len(coefflist[mnsdims[w]]) = mnsdims[w] - 1
         /\ OrthogonalContrasts(ContrastsOf(mnsdims[w]), mnsdims[w])

\* C13 witness: the cubic contrast of ten levels has been looked up
C13_Witness ==
  /\ mnsdims = <<10>>
  /\ dvi = 3
  /\ nextcoeff = <<<<-42, 14, 35, 31, 12, -12, -31, -35, -14, 42>>>>

\* C14: the D-variable of a pure-within source has one column per
\* combination of contrast indices: every column is a combination of one
\* index 0..levels-2 per within factor of the source, no combination is
\* used twice, and the finished D-variable has exactly the product of
\* (levels - 1) over the factors of the source columns.
C14_OneColumnPerCombination ==
  dvpc # "idle" =>
    /\ \A c \in 1..Len(Dcols) : IsCombination(Dcols[c], source)
    /\ \A c \in 1..(Len(Dcols) - 1) : Dcols[c] # Dcols[Len(Dcols)]
    /\ dvpc = "done" => Len(Dcols) = LevelsLessOne(source)

\* C14 witness: the four columns of the interaction of two three-level
\* within factors, one of them column 3 of a design with a between factor
C14_Witness ==
  /\ dvpc = "done"
  /\ Nlevels = <<2, 3, 2, 3>>
  /\ Bwithins = 10
  /\ source = 11
  /\ Dcols = <<<<0, 0>>, <<0, 1>>, <<1, 0>>, <<1, 1>>>>

\* C15: D-variables are built once per pure-within source, dcount is the
\* position in Bwonly_sources of the source built last and stays below
\* Nwsources, and for a source just evaluated that holds within factors
\* D[Bwonly_sources.index(sourcewithins)] exists and is the D-variable
\* built for exactly its within factors.
\* the within part sw of the source just evaluated, if it has one, was built
\* as a pure-within source and the D-variable taken for the source is its
WithinPartTaken(sw) ==
  sw # 0 => WithinPartBuilt(sw, WorkD(source, Bwonly_sources, D))

C16_CollapsedValueEntersDA ==
  dapc = "done" =>
    \A i \in 1..Len(cdata) :
      DA[SlotOf(cdata[i].key, alluniqueslist)] * cdata[i].n = cdata[i].sum

\* C17: permuting the rows of the observation table changes no result:
\* in particular findwithin classifies every factor as it does for any other
\* order of the same rows.
C17_RowOrderDoesNotMatter ==
  fwpc = "done" =>
    \A o \in RowOrders(Len(data)) :
      \A col \in 1..Len(withinvec) :
        FindwithinFlag(Reordered(data, o), col) = withinvec[col]

\* C18: after every completed iteration dfnum is the product of (levels - 1)
\* over the factors named by the source, whatever branch computed it; the
\* subject column contributes nothing.
C18_DfnumIsLevelsLessOne ==
  (it > 0 /\ err = "none") => dfnum = LevelsLessOne(source)

\* a mixed source over a 3-level between factor and a 2-level within factor
C18_Witness ==
  /\ it > 0 /\ err = "none"
  /\ source = 7 /\ Bwithins = 4
  /\ At(Nlevels, 1) = 3 /\ At(Nlevels, 2) = 2
  /\ dfnum = 2

\* C19: for a source of between factors only dfden is Nsubjects minus the
\* product of the level counts of all between factors; for a source of within
\* factors only it is that difference minus dfnum plus 1; with no between
\* factor the product is 1.
\* dfden of a source that is between-only (btw) or within-only (win) in a
\* design whose between factors have cells combinations of levels
DfdenOfClass(btw, win, cells) ==
  /\ btw => dfden = Nsubjects - cells
  /\ win => dfden = Nsubjects - cells - dfnum + 1
  /\ (win /\ Bbetweens = 0) => dfden = Nsubjects - dfnum

C19_DfdenFromBetweenCells ==
  (it > 0 /\ err = "none") =>
    DfdenOfClass(BetweenOnly(source), WithinOnly(source), BetweenLevels)

\* a within-only source was evaluated in a design that has a between factor
C19_Witness ==
  /\ it > 0 /\ err = "none"
  /\ WithinOnly(source) /\ Bbetweens # 0
  /\ dfden = Nsubjects - BetweenLevels - dfnum + 1

\* C20: for one between-subjects factor and no within factor, anova's SS,
\* SSw, dfnum and dfden equal f_oneway's ssbn, sswn, dfbn and dfwn on the
\* same groups, whether or not the groups have the same size.
C20_MatchesOneWay ==
  BothSummed =>
    /\ SS = oneway.ssbn
    /\ SSw = oneway.sswn
    /\ dfnum = oneway.dfbn
    /\ dfden = oneway.dfwn

\* What does hold of the two computations: SSw, dfnum and dfden equal sswn,
\* dfbn and dfwn for groups of any sizes; SS equals ssbn when the groups
\* have the same size, and then F has the same sign whenever f_oneway
\* returns one.
MatchesOneWayEqualGroups ==
  BothSummed =>
    /\ SSw = oneway.sswn
    /\ dfnum = oneway.dfbn
    /\ dfden = oneway.dfwn
    /\ EqualGroups =>
         /\ SS = oneway.ssbn
         /\ oneway.err = "none" => (err = "none" /\ f = Sign(oneway.f[1]))

\* two groups of two scores each with different means and some error
EqualGroupsMatched ==
  /\ BothSummed
  /\ EqualGroups
  /\ oneway.err = "none"
  /\ SS = oneway.ssbn /\ SS[1] > 0
  /\ SSw = oneway.sswn /\ SSw[1] > 0
  /\ f = 1

\* the entries of a list, as a set
Entries(l) == {l[i] : i \in 1..Len(l)}

FlagByOwnFirstLevel(d, col) ==
  IF \E i, j \in 1..Len(d) :
       /\ i < j
       /\ At(d[i], col) = At(d[1], col)
       /\ At(d[j], col) = At(d[1], col)
       /\ At(d[i], 0) = At(d[j], 0)
  THEN 1 ELSE 0

\* C25: findwithin flags factor c iff, among the rows whose column c holds
\* the first level of factor c, the distinct subjects are fewer than the
\* rows; the result has exactly one 0/1 flag per factor column.
C25_FlagFromOwnFirstLevel ==
  fwpc = "done" =>
    /\ Len(withinvec) = Len(data[1]) - 2
    /\ \A col \in 1..Len(withinvec) :
         /\ withinvec[col] \in {0, 1}
         /\ withinvec[col] = FlagByOwnFirstLevel(data, col)

\* the flags are one 0/1 per factor column, and the first factor's flag is
\* decided from the rows at its own first level
OneFlagPerFactorFirstFromOwnLevel ==
  fwpc = "done" =>
    /\ Len(withinvec) = Len(data[1]) - 2
    /\ \A col \in 1..Len(withinvec) : withinvec[col] \in {0, 1}
    /\ withinvec[1] = FlagByOwnFirstLevel(data, 1)

\* l is in non-decreasing order
NonDecreasing(l) == \A x \in 1..(Len(l) - 1) : l[x] <= l[x + 1]

\* l holds each of 0..n-1 once
IsPermutation(l, n) ==
  /\ Len(l) = n
  /\ \A v \in 0..(n - 1) : \E x \in 1..n : l[x] = v

\* what shellsort returns for the array it was called on
SortedWithIndex(s) ==
  /\ Len(s.svec) = Len(s.a)
  /\ NonDecreasing(s.svec)
  /\ IsPermutation(s.ivec, Len(s.a))
  /\ \A x \in 1..Len(s.a) : s.svec[x] = At(s.a, s.ivec[x])

\* C27: shellsort terminates on every 1-D input and returns (svec, ivec)
\* with svec the input's values in non-decreasing order, ivec a permutation
\* of 0..n-1 with svec[i] = a[ivec[i]] for every i, and the input array a
\* is never changed.
C27_ShellsortSortsAndReturns ==
  /\ <>(shell.pc = "done")
  /\ [](shell.pc = "done" => SortedWithIndex(shell))
  /\ [][shell'.a = shell.a]_vars

\* C27 witness: a reversed array with a repeated value has been sorted
C27_Witness ==
  /\ shell.pc = "done"
  /\ shell.a = <<2, 1, 1, 0>>
  /\ shell.svec = <<0, 1, 1, 2>>
  /\ shell.ivec \in {<<3, 1, 2, 0>>, <<3, 2, 1, 0>>}

\* C24: kruskalwallish accepts 3 or more samples: for any number of groups
\* >= 3 it does not fail its argument check, and it rejects only fewer
\* than 3 groups.
C24_AcceptsThreeOrMore ==
  kw.pc \in {"done", "raised"} =>
    (kw.err = "AssertionError" <=> Len(kw.args) < 3)

\* the argument check passes exactly three samples, and three samples of
\* at least one score each, not all alike, give H with df = 2
ExactlyThreeAccepted ==
  /\ kw.pc \in {"done", "raised"} =>
       (kw.err = "AssertionError" <=> Len(kw.args) # 3)
  /\ kw.pc = "done" => kw.df = 2 /\ kw.h[1] >= 0

\* four samples have been turned away
FourSamplesRejected ==
  /\ kw.pc = "raised"
  /\ kw.err = "AssertionError"
  /\ kw.args = << <<0>>, <<1>>, <<0, 1>>, <<1, 1>> >>

RaoDenominator(p, k) == p^2 + (k - 1)^2 - 5

RaoNumerator(p, k) == (p * (k - 1))^2 - 4

\* s2 is the square of the s that p and k give: 1 when the denominator is
\* 0, else the quotient, which is a positive number
WellDefinedS(s2, n_um, d_en) ==
  /\ s2[1] > 0
  /\ s2[2] > 0
  /\ d_en = 0 => s2 = <<1, 1>>
  /\ d_en # 0 => /\ n_um * d_en > 0
                 /\ s2[1] * d_en = n_um * s2[2]

\* C30: for every p >= 1 and k >= 2, either the denominator
\* p^2 + (k-1)^2 - 5 is 0 and s = 1, or the quotient
\* ((p(k-1))^2 - 4) / (p^2 + (k-1)^2 - 5) is strictly positive, so the
\* square root gets no negative number and 1/s divides by no zero.
C30_RaoSWellDefined ==
  rao.pc = "done" =>
    WellDefinedS(rao.s2, RaoNumerator(rao.p, rao.k), RaoDenominator(rao.p, rao.k))

\* C30 witness: s computed where numerator and denominator are both
\* negative (p = 1, k = 2), and where the denominator is 0 (p = 2, k = 2)
C30_Witness ==
  /\ rao.pc = "done"
  /\ rao.p = 1
  /\ rao.k = 2
  /\ rao.s2 = <<3, 3>>

C30_WitnessZeroDenominator ==
  /\ rao.pc = "done"
  /\ rao.p = 2
  /\ rao.k = 2
  /\ rao.s2 = <<1, 1>>

\* the axes in the order the loop "for i in range(len(l)-1,-1,-1)" takes them
FromTheEnd(l) == [x \in 1..Len(l) |-> l[Len(l) + 1 - x]]

\* the axes of DA that are left once the axes of l are collapsed, in order
AxesLeft(l) == SelectSeq(Range0(Nfactors + 1), LAMBDA c : c \notin Entries(l))

\* the within-subjects factor columns of a source, without column 0
WithinSourceColumns(src) ==
  Tail(makelist(BitAnd(src, makebin(Wscols)), Nfactors + 1))

\* axes, the remapped columns cols of a source whose other within axes
\* nonsource were collapsed into an array of shape mnsshape, are the
\* positions of those columns among the axes left: valid axes, none the
\* subject axis, each with the level count of its factor
AxesOfColumns(cols, axes, nonsource, mnsshape) ==
  /\ Len(axes) = Len(cols)
  /\ Len(mnsshape) = Len(AxesLeft(nonsource))
  /\ \A x \in 1..Len(cols) :
       /\ axes[x] \in 1..(Len(mnsshape) - 1)
       /\ At(AxesLeft(nonsource), axes[x]) = cols[x]
       /\ At(mnsshape, axes[x]) = At(Nlevels, cols[x])

\* the axes of nonsource are collapsed in strictly decreasing order
CollapsedDownwards(nonsource) ==
  \A x \in 1..(Len(nonsource) - 1) :
    FromTheEnd(nonsource)[x] > FromTheEnd(nonsource)[x + 1]

\* C26: when a D-variable is built, the within axes not in the source are
\* collapsed in strictly decreasing axis index, and each within-source
\* column remapped through Lsourceandbtws.index is that factor's axis in
\* the collapsed array: a valid axis, never the subject axis 0.
C26_CollapseFromTheEndAndRemap ==
  (it > 0 /\ subset(source - 1, Bwithins)) =>
    /\ CollapsedDownwards(Lwithinnonsource(source))
    /\ AxesOfColumns(WithinSourceColumns(source),
                     Tail(Lwithinsourcecol(source)),
                     Lwithinnonsource(source),
                     CollapseShape(Nlevels, Lwithinnonsource(source)))

\* C26 witness: the D-variable of the second of two within factors, built
\* in a design with a between factor after it: axis 1 is collapsed, and
\* column 2 is axis 1 of what is left
C26_Witness ==
  /\ it > 0
  /\ source = 5
  /\ Bwithins = 6
  /\ Bbetweens = 8
  /\ Lwithinnonsource(source) = <<1>>
  /\ Lwithinsourcecol(source) = <<0, 1>>

\* everything a read returned was written by the reading source itself or
\* by a source of strictly fewer factor bits
FromFewerBits(r) ==
  /\ \A i \in 1..Len(r.memo) :
       r.memo[i] > 0 /\ numbitson(r.memo[i] - 1) < numbitson(r.src - 1)
  /\ r.slot # 0 =>
       r.slot = r.src \/ (r.slot > 0 /\ numbitson(r.slot - 1) < numbitson(r.src - 1))

\* no lookup fails, every memo entry and slot read was written by a source
\* of fewer bits or by the reader, and each source is handed what the
\* sequential loop hands it
EntriesReadAsInTheLoop ==
  /\ sched.pc \in {"run", "done"} =>
       /\ sched.err = "none"
       /\ \A r \in sched.reads :
            /\ FromFewerBits(r)
            /\ r \in Sequential(Len(Sources(Nallsources))).reads
  /\ sched.pc = "done" =>
       sched.reads = Sequential(Len(Sources(Nallsources))).reads
  /\ sched.pc # "raised"

\* the value of dcount a source increments was written by a source of
\* fewer bits or is the initial one, and is the one the loop hands it
CounterReadAsInTheLoop ==
  \A c \in sched.counts :
    /\ c.by = 0 \/ numbitson(c.by - 1) < numbitson(c.src - 1)
    /\ c \in Sequential(Len(Sources(Nallsources))).counts

MixedReadsSlotOfWithinPart ==
  /\ sched.pc = "done"
  /\ Bwithins = 2
  /\ sched.Bwsources = <<2, 6>>
  /\ sched.alleffsources = <<5, 7>>
  /\ [src |-> 7, memo |-> <<>>, slot |-> 3] \in sched.reads

\* the slots of DA no row of the table goes to
EmptySlots ==
  {idx \in DOMAIN DA :
     \A i \in 1..Len(data) : SlotOf(data[i], alluniqueslist) # idx}

\* DA with the value alt in its empty slots
Refilled(alt) ==
  LET empty == EmptySlots
  IN Stored([idx \in DOMAIN DA |-> IF idx \in empty THEN alt ELSE DA[idx]])

\* every subject has a value in every within-cell of its own between-cell:
\* a slot that agrees with a row of the table on the subject and on the
\* between-subjects columns is filled
EveryWithinCellMeasured ==
  LET empty == EmptySlots
      slots == [i \in 1..Len(data) |-> SlotOf(data[i], alluniqueslist)]
  IN \A idx \in DOMAIN DA :
       (\E i \in 1..Len(data) :
          \A c \in 1..Len(Bscols) :
            At(slots[i], Bscols[c]) = At(idx, Bscols[c]))
       => idx \notin empty

\* values tried in the empty slots
DDFills == -4..1

\* C29: the dummy fill value never influences a result: the search for
\* dummyval ends, with a value that is no score of the table, and when every
\* subject has a value in every within-cell of its own between-cell each
\* D-variable entry of each subject is the same whatever value fills the
\* empty slots of DA.
C29_DummyNeverInfluences ==
  /\ <>(dapc # "dummyval")
  /\ [](dapc # "dummyval" => dummyval \notin Datavals)
  /\ []((dvals.pc = "done" /\ EveryWithinCellMeasured) =>
          \A alt \in DDFills : DVariables(Refilled(alt)) = dvals.D)

\* C29 witness: the search went down to -3, DA keeps empty slots (those of
\* the other group), and a D-variable entry of a subject is not zero
C29_Witness ==
  /\ dvals.pc = "done"
  /\ EveryWithinCellMeasured
  /\ EmptySlots # {}
  /\ dummyval = -3
  /\ Bwithins = 2
  /\ Bbetweens = 4
  /\ \E sb \in 0..(Nsubjects - 1) : dvals.D[1].columns[1][<<sb>>] # 0

\* when the groups are flagged within-subjects the cells of the other group
\* count as missing, and the value in the empty slots shows in a D-variable
DummyShowsWhenCellsMissing ==
  /\ dvals.pc = "done"
  /\ ~EveryWithinCellMeasured
  /\ \E alt \in DDFills : DVariables(Refilled(alt)) # dvals.D

\* the total sum of squares of the scores of a table: every score less the
\* mean of all, squared, summed
TotalSS(d) ==
  LET scores == colex(d, Len(d[1]) - 1) \o <<>>
      average == Rat(Sum(scores), Len(scores))
  IN RSum([i \in 1..Len(scores) |->
             RMul(RSub(<<scores[i], 1>>, average),
                  RSub(<<scores[i], 1>>, average))] \o <<>>)

\* C22: the SS of every enumerated source and the residual add up to the
\* total sum of squares of the data; for the one factor of a one-way
\* design, SS + SSw = sum((x - mean(x))**2).
C22_SumsOfSquaresAddUp ==
  (owpc = "done" /\ err = "none") => RAdd(SS, SSw) = TotalSS(data)

\* with groups of one size the sums of squares do add up
AddUpWhenGroupsAreEqual ==
  (owpc = "done" /\ err = "none" /\ \A j \in 1..Len(Narray) : Narray[j] = Narray[1])
    => RAdd(SS, SSw) = TotalSS(data)

\* groups of 3 and 2 subjects: SS + SSw = 39/125 + 1/2 against a total of 4/5
SumsOfSquaresOffTheTotal ==
  /\ owpc = "done"
  /\ err = "none"
  /\ data = << <<1, 1, 0>>, <<2, 1, 0>>, <<3, 1, 0>>, <<4, 2, 0>>, <<5, 2, 1>> >>
  /\ SS = <<39, 125>>
  /\ SSw = <<1, 2>>
  /\ TotalSS(data) = <<4, 5>>

\* the score of a subject at a level of the one factor, positions from 0
ScoreAt(sb, lv) ==
  LET i == CHOOSE i \in 1..Len(data) :
             /\ data[i][1] = At(alluniqueslist[1], sb)
             /\ data[i][2] = At(alluniqueslist[2], lv)
  IN data[i][3]

\* d: the difference of the two scores of each subject
Differences == [sb \in 1..Nsubjects |-> ScoreAt(sb - 1, 1) - ScoreAt(sb - 1, 0)]

\* sum((d - mean(d))**2)
SquaresAboutMean(d) ==
  RSum([i \in 1..Len(d) |->
          RMul(RSub(<<d[i], 1>>, Rat(Sum(d), Len(d))),
               RSub(<<d[i], 1>>, Rat(Sum(d), Len(d))))] \o <<>>)

\* the square of the paired t: N*(N-1)*mean(d)**2 / sum((d - mean(d))**2)
PairedTSquared(d) ==
  RDiv(RMul(<<Len(d) * (Len(d) - 1), 1>>,
            RMul(Rat(Sum(d), Len(d)), Rat(Sum(d), Len(d)))),
       SquaresAboutMean(d))

\* dfnum = 1, dfden = N - 1, F the square of the paired t of the two columns
PairedResult ==
  /\ dfnum = 1
  /\ dfden = Nsubjects - 1
  /\ SquaresAboutMean(Differences \o <<>>)[1] # 0 =>
       FValue(SS, SSw, dfnum, dfden) = PairedTSquared(Differences \o <<>>)

\* C21: for a single within-subjects factor of 2 levels, no between factor,
\* N subjects, the one source has dfnum = 1, dfden = N - 1 and F equal to the
\* square of the paired t-statistic of the two columns.
C21_FIsPairedTSquared ==
  (it = 1 /\ err = "none") => PairedResult

\* where findwithin flags the factor within-subjects (every measure is
\* entered twice) the source does give the paired result
PairedWhenFlaggedWithin ==
  (it = 1 /\ err = "none" /\ Bwithins = 2) => PairedResult

\* three subjects measured once at each level: the factor is flagged
\* between-subjects and the error has N - 2 = 1 degree of freedom
PairedTableTakenAsGroups ==
  /\ it = 1
  /\ err = "none"
  /\ data = << <<1, 1, 0>>, <<1, 2, -1>>, <<2, 1, 0>>, <<2, 2, -1>>,
               <<3, 1, 0>>, <<3, 2, 0>> >>
  /\ Bwithins = 0
  /\ branch = "M"
  /\ dfnum = 1
  /\ dfden = 1

\* the same measures entered twice: the within-only branch, dfden = 2, and
\* F = 4, the square of the paired t
PairedTableEnteredTwice ==
  /\ it = 1
  /\ err = "none"
  /\ Nsubjects = 3
  /\ Bwithins = 2
  /\ branch = "mean"
  /\ Differences = <<-1, -1, 0>>
  /\ dfden = 2
  /\ FValue(SS, SSw, dfnum, dfden) = <<4, 1>>

====
